---- MODULE Spec2Model ----
(***************************************************************************)
(* Patient monitoring system: event-detection agents and the alert-fusion  *)
(* Orchestrator, modelled as state machines.                               *)
(*                                                                         *)
(* Time is wall-clock time in whole seconds.  Real-valued quantities are   *)
(* kept exact: a normalized height is a pixel row over the frame height    *)
(* and every threshold comparison is done by cross-multiplication.         *)
(***************************************************************************)
EXTENDS Integers, Sequences, FiniteSets, TLC

\* ------------------------------------------------------------------ bounds
StartTime == 100      \* wall clock at construction (time.time() is far above every cooldown)
MaxTime == 10         \* the orchestrator clock runs to StartTime + MaxTime
MaxEvents == 3        \* events passed to the orchestrator in one run
MaxChanges == 1       \* scene changes and operator interventions in one run
FallHorizon == 35     \* frames fed to the fall agent in one run
SeizureHorizon == 166 \* frames fed to the seizure agent in one run
VitalHorizon == 332   \* frames fed to the vital-signs agent in one run
MaxCapacity == 3      \* largest TemporalBuffer capacity tried
MaxAdds == 5          \* items added to the buffer between two moments it is empty
MaxItem == 2          \* the items added are 1..MaxItem
MaxWindow == 4        \* largest window asked of get_window
WarmSlack == 3           \* frames fed to an agent after its window has filled
EmotionHorizon == 12     \* frames fed to the emotion agent in one run
ImmobilityHorizon == 4   \* frames fed to the immobility agent between resets
BedWalkHorizon == 5   \* frames fed to the bed-exit agent with a configured region
MaxRequests == 3      \* /api/start and /api/stop requests received in one run
SwitchSpan == 6        \* detect calls made on an agent that is switched on and off
MaxUpdates == 3       \* calls of PersonTracker.update in one run
MaxDetections == 2    \* detections passed to one update
VigilSpan == 5700     \* seconds a motionless patient is watched
VigilStep == 45       \* seconds between two frames of that patient
BedHorizon == 34      \* frames fed to the bed-exit agent in one run

NoneVal == -1         \* Python None for numeric fields

\* ------------------------------------------------------------------- state
VARIABLES
    now,              \* wall clock, time.time()
    \* Orchestrator
    recent_alerts,    \* Orchestrator.recent_alerts
    event_buffer,     \* Orchestrator.event_buffer
    orch_batch,       \* the events argument of the last process_events call
    orch_returned,    \* the list the last call returned
    orch_candidates,  \* the alerts the last call built, with their fate
    orch_fresh,       \* TRUE right after a process_events call returned
    record_log,       \* when each message was last recorded since the last reset
    events_seen,      \* number of events passed in so far
    scen,             \* the run's environment: event kinds, local hour, frame latency
    \* frame loop
    pipe_frontend,      \* "cli" or "web"
    pipe_running,       \* the loop is still iterating (web: monitoring_active)
    pipe_stop_reason,   \* why the loop ended
    pipe_ran,           \* the agents whose detect was called for the last frame
    pipe_raised,        \* the agent whose detect raised in the last frame, or "none"
    pipe_orchestrated,  \* process_events was called for the last frame
    \* the camera scene an agent under test is fed
    focus,            \* the agent instance this run drives
    env_last,         \* the previous frame
    env_changes,      \* how often the scene changed or the operator stepped in
    \* FallDetectionAgent
    fall_enabled,          \* BaseAgent.enabled
    fall_frame_count,      \* BaseAgent.frame_count
    fall_pose_buffer,      \* self.pose_buffer
    fall_last_event_time,  \* self.last_event_time
    fall_event,            \* what the last detect returned: <<>> or <<event>>
    fall_emit_log,         \* wall-clock times of the emissions since construction / reset
    fall_fed,              \* the pose-bearing frames fed since construction / reset
    \* SeizureDetectionAgent
    seizure_enabled,          \* BaseAgent.enabled
    seizure_frame_count,      \* BaseAgent.frame_count
    seizure_pose_buffer,      \* self.pose_buffer
    seizure_start_time,       \* self.seizure_start_time, NoneVal for None
    seizure_last_event_time,  \* self.last_event_time
    seizure_event,            \* what the last detect returned: <<>> or <<event>>
    seizure_emit_log,         \* wall-clock times of the emissions since construction / reset
    seizure_watch,            \* the seizure condition as the full window showed it last
    \* BedExitAgent
    bed_enabled,               \* BaseAgent.enabled
    bed_frame_count,           \* BaseAgent.frame_count
    bed_region,                \* self.bed_region: <<>> for None, else <<box>>
    bed_current_state,         \* self.current_state
    bed_state_start_time,      \* self.state_start_time
    bed_last_transition_time,  \* self.last_transition_time
    bed_calibration_frames,    \* self.calibration_frames
    bed_calibration_bboxes,    \* self.calibration_bboxes
    bed_event,                 \* what the last detect returned: <<>> or <<event>>
    bed_watch,                 \* the stored state before the last detect and what it classified
    bed_walk,                  \* the poses fed to a bed-exit agent with a configured region
    \* VitalSignsAgent
    vital_enabled,            \* BaseAgent.enabled
    vital_frame_count,        \* BaseAgent.frame_count
    vital_face_roi_buffer,    \* self.face_roi_buffer
    vital_last_update_frame,  \* self.last_update_frame
    vital_event,              \* what the last detect returned: <<>> or <<event>>
    vital_watch,              \* whether the last detect ran the processor, and its result
    vital_runs,               \* frame counts of the last two processor runs and emissions
    \* ImmobilityAgent
    immobility_enabled,                \* BaseAgent.enabled
    immobility_frame_count,            \* BaseAgent.frame_count
    immobility_last_pose,              \* self.last_pose: <<>> for None, else <<pose>>
    immobility_last_movement_time,     \* self.last_movement_time
    immobility_last_check_time,        \* self.last_check_time
    immobility_posture_change_count,   \* self.posture_change_count
    immobility_current_posture,        \* self.current_posture
    immobility_pose_buffer,            \* self.pose_buffer
    immobility_event,                  \* what the last detect returned: <<>> or <<event>>
    immobility_watch,                  \* whether the last detect evaluated the risk, and on what
    immobility_log,                    \* when the agent was built or reset, its last two
                                       \* evaluations and its last two emissions
    \* a TemporalBuffer of its own
    temporal_maxlen,   \* self.maxlen
    temporal_buffer,   \* self.buffer
    temporal_added,    \* the items added since the buffer was last empty
    temporal_call,     \* the last method call: its argument, the buffer before, its result
    \* EmotionDetectionAgent
    emotion_enabled,            \* BaseAgent.enabled
    emotion_frame_count,        \* BaseAgent.frame_count
    emotion_last_emotion,       \* self.last_emotion: <<>> for None, else <<emotion>>
    emotion_last_update_frame,  \* self.last_update_frame
    emotion_event,              \* what the last detect returned: <<>> or <<event>>
    \* objects built from a configuration of the operator's
    configured_rules,   \* Orchestrator.rules of an orchestrator built from a given config
    configured_batch,   \* the events last passed to that orchestrator's rules
    configured_alerts,  \* the alerts its rules produced for them
    rppg_algorithm,     \* RPPGProcessor.algorithm
    rppg_ran,           \* the algorithm the last process call ran, "none" if none
    agent_config,       \* BaseAgent.config of the agents, by agent
    \* the analysis functions applied to measurements of their own
    fall_classified,    \* <<>> or the indicators last classified, with the outcome
    seizure_analysed,   \* <<>> or the limbs last analysed, with the outcome
    bed_classified,     \* <<>> or the frame last classified, with the states before and after
    movement_watch,     \* the last pose shown to the immobility agent, and when the
                        \* scene last moved by more than the threshold
    \* web_server.py
    monitoring_active,  \* the global monitoring_active
    web_pipeline,       \* monitoring_system.video_pipeline: which one, and whether its
                        \* capture is open
    web_requests,       \* the /api/start and /api/stop requests received, each with the
                        \* place its handler has reached
    web_loops,          \* the monitoring threads started, each with the place it has reached
    \* PersonTracker without DeepSORT
    track_max_age,      \* self.max_age
    track_next_id,      \* self.next_id
    track_tracks,       \* self.tracks with self.track_ages, in insertion order
    track_input,        \* the detections last passed to update
    track_returned,     \* what that update returned
    track_issued,       \* the track IDs given to new tracks since construction / reset
    track_updates       \* calls of update so far

orchVars == <<recent_alerts, event_buffer, orch_batch,
              orch_returned, orch_candidates, orch_fresh, record_log,
              events_seen, scen>>

pipeVars == <<pipe_frontend, pipe_running, pipe_stop_reason, pipe_ran,
              pipe_raised, pipe_orchestrated>>

envVars == <<focus, env_last, env_changes>>

fallVars == <<fall_enabled, fall_frame_count, fall_pose_buffer,
              fall_last_event_time, fall_event, fall_emit_log, fall_fed>>

seizureVars == <<seizure_enabled, seizure_frame_count, seizure_pose_buffer,
                 seizure_start_time, seizure_last_event_time, seizure_event,
                 seizure_emit_log, seizure_watch>>

bedVars == <<bed_enabled, bed_frame_count, bed_region, bed_current_state,
             bed_state_start_time, bed_last_transition_time, bed_calibration_frames,
             bed_calibration_bboxes, bed_event, bed_watch, bed_walk>>

immobilityVars == <<immobility_enabled, immobility_frame_count, immobility_last_pose,
                    immobility_last_movement_time, immobility_last_check_time,
                    immobility_posture_change_count, immobility_current_posture,
                    immobility_pose_buffer, immobility_event, immobility_watch,
                    immobility_log>>

vitalVars == <<vital_enabled, vital_frame_count, vital_face_roi_buffer,
               vital_last_update_frame, vital_event, vital_watch, vital_runs>>

bufferVars == <<temporal_maxlen, temporal_buffer, temporal_added, temporal_call>>

emotionVars == <<emotion_enabled, emotion_frame_count, emotion_last_emotion,
                 emotion_last_update_frame, emotion_event>>

configVars == <<configured_rules, configured_batch, configured_alerts,
                rppg_algorithm, rppg_ran, agent_config>>

probeVars == <<fall_classified, seizure_analysed, bed_classified, movement_watch>>

webVars == <<monitoring_active, web_pipeline, web_requests, web_loops>>

trackVars == <<track_max_age, track_next_id, track_tracks, track_input,
               track_returned, track_issued, track_updates>>

restVars == <<bufferVars, emotionVars, configVars, probeVars, webVars, trackVars>>

otherVars == <<vitalVars, immobilityVars, restVars>>

agentVars == <<envVars, fallVars, seizureVars, bedVars, otherVars>>

vars == <<now, orchVars, pipeVars, agentVars>>

\* ------------------------------------------------------------ orchestrator
deduplication_window == 5

\* ORCHESTRATOR_CONFIG["rules"], in dictionary order
rules == <<
    [name |-> "critical_fall",
     conditions |-> <<"fall_detected", "low_heart_rate">>,
     level |-> "CRITICAL",
     message |-> "Critical: Fall detected with abnormal vital signs"],
    [name |-> "bed_exit_night",
     conditions |-> <<"bed_exit", "nighttime">>,
     level |-> "HIGH",
     message |-> "High Alert: Patient exited bed during nighttime"],
    [name |-> "prolonged_immobility",
     conditions |-> <<"immobility_alert">>,
     level |-> "MEDIUM",
     message |-> "Warning: Prolonged immobility detected"],
    [name |-> "seizure_detected",
     conditions |-> <<"seizure">>,
     level |-> "CRITICAL",
     message |-> "Critical: Seizure activity detected"] >>

is_nighttime(hour) == hour >= 22 \/ hour < 6

\* A message: the format string and the values interpolated into it.
Msg(fmt, label, hr, rr) == [fmt |-> fmt, label |-> label, hr |-> hr, rr |-> rr]

\* An event as the orchestrator reads it: type, timestamp, agent, and the
\* type-specific fields (label is fall_type / state / risk_level / emotion).
MkEvent(k, ts) ==
    [event_type |-> k.event_type, timestamp |-> ts, agent_name |-> k.event_type,
     label |-> k.label, heart_rate |-> k.heart_rate,
     respiratory_rate |-> k.respiratory_rate]

Kind(t, label, hr) ==
    [event_type |-> t, label |-> label, heart_rate |-> hr,
     respiratory_rate |-> IF hr = NoneVal THEN NoneVal ELSE 15]

FallKind == Kind("fall_detection", "lying", NoneVal)
BedKind == Kind("bed_exit", "STANDING", NoneVal)
ImmobilityKind == Kind("immobility", "MEDIUM", NoneVal)
SeizureKind == Kind("seizure_detection", "", NoneVal)
EmotionKind == Kind("emotion_detection", "happy", NoneVal)
VitalKind(hr) == Kind("vital_signs", "", hr)

\* The environments a run is drawn from: the event kinds the agents produce
\* in it, the local hour, and the seconds between a frame's timestamp
\* (taken before perception) and the orchestrator's clock reads.
Scenarios == {
    [kinds |-> {FallKind, VitalKind(45), VitalKind(48)}, hour |-> 21, lag |-> 0],
    [kinds |-> {FallKind, VitalKind(72), BedKind}, hour |-> 6, lag |-> 0],
    [kinds |-> {BedKind, EmotionKind}, hour |-> 22, lag |-> 1],
    [kinds |-> {SeizureKind, ImmobilityKind, EmotionKind}, hour |-> 5, lag |-> 0] }

EventsOfType(events, t) == SelectSeq(events, LAMBDA e : e.event_type = t)

\* `ve.heart_rate and ve.heart_rate < 50`
IsLowHeartRate(ve) == ve.heart_rate # NoneVal /\ ve.heart_rate # 0 /\ ve.heart_rate < 50

\* low_heart_rate as it would be without the two `return None`.
LowHeartRateMatch_NoAbort(events) ==
    LET low == SelectSeq(EventsOfType(events, "vital_signs"), IsLowHeartRate)
    IN  [ok |-> TRUE, matched |-> IF low # <<>> THEN <<Head(low)>> ELSE <<>>]

\* The low_heart_rate branch: the first vital-signs event below 50 is
\* matched and the loop breaks; the for-else returns None.
LowHeartRateMatch(events) ==
    LET vital_events == EventsOfType(events, "vital_signs")
        low == SelectSeq(vital_events, IsLowHeartRate)
    IN  IF vital_events # <<>> /\ low # <<>>
        THEN [ok |-> TRUE, matched |-> <<Head(low)>>]
        ELSE [ok |-> FALSE, matched |-> <<>>]

\* A presence condition: every event of the type is matched, none aborts.
PresenceMatch(events, t) ==
    LET es == EventsOfType(events, t)
    IN  [ok |-> es # <<>>, matched |-> es]

\* One pass of the condition loop of _apply_rule.
ConditionMatch(condition, events, hour) ==
    CASE condition = "fall_detected" -> PresenceMatch(events, "fall_detection")
      [] condition = "low_heart_rate" -> LowHeartRateMatch(events)
      [] condition = "bed_exit" -> PresenceMatch(events, "bed_exit")
      [] condition = "nighttime" -> [ok |-> is_nighttime(hour), matched |-> <<>>]
      [] condition = "immobility_alert" -> PresenceMatch(events, "immobility")
      [] condition = "seizure" -> PresenceMatch(events, "seizure_detection")
      [] OTHER -> [ok |-> TRUE, matched |-> <<>>]

\* The condition loop: None as soon as one condition is unmet, otherwise
\* the matched events accumulated in condition order.
RECURSIVE MatchConditions(_, _, _, _)
MatchConditions(conditions, events, hour, matched) ==
    IF conditions = <<>> THEN [ok |-> TRUE, matched |-> matched]
    ELSE LET m == ConditionMatch(Head(conditions), events, hour)
         IN  IF m.ok
             THEN MatchConditions(Tail(conditions), events, hour, matched \o m.matched)
             ELSE [ok |-> FALSE, matched |-> <<>>]

\* _apply_rule: zero or one alert.
apply_rule(rule, events, hour, t) ==
    LET m == MatchConditions(rule.conditions, events, hour, <<>>)
    IN  IF m.ok /\ m.matched # <<>>
        THEN << [level |-> rule.level,
                 message |-> Msg(rule.message, "", NoneVal, NoneVal),
                 timestamp |-> t,
                 events |-> m.matched,
                 metadata |-> [key |-> "rule", value |-> rule.name]] >>
        ELSE <<>>

level_map(event_type) ==
    CASE event_type = "fall_detection" -> "HIGH"
      [] event_type = "seizure_detection" -> "CRITICAL"
      [] event_type = "bed_exit" -> "MEDIUM"
      [] event_type = "immobility" -> "MEDIUM"
      [] event_type = "emotion_detection" -> "INFO"
      [] event_type = "vital_signs" -> "INFO"
      [] OTHER -> "INFO"

message_map(event) ==
    CASE event.event_type = "fall_detection" -> Msg("Fall detected: {}", event.label, NoneVal, NoneVal)
      [] event.event_type = "seizure_detection" -> Msg("Seizure activity detected", "", NoneVal, NoneVal)
      [] event.event_type = "bed_exit" -> Msg("Bed exit: {}", event.label, NoneVal, NoneVal)
      [] event.event_type = "immobility" -> Msg("Immobility detected: {} risk", event.label, NoneVal, NoneVal)
      [] event.event_type = "emotion_detection" -> Msg("Emotion: {}", event.label, NoneVal, NoneVal)
      [] event.event_type = "vital_signs" -> Msg("HR: {} bpm, RR: {}", "", event.heart_rate, event.respiratory_rate)
      [] OTHER -> Msg("Event: {}", event.event_type, NoneVal, NoneVal)

create_individual_alert(event) ==
    [level |-> level_map(event.event_type),
     message |-> message_map(event),
     timestamp |-> event.timestamp,
     events |-> <<event>>,
     metadata |-> [key |-> "source", value |-> event.agent_name]]

\* _is_covered_by_rules with vital signs counted as covered.
is_covered_by_rules_VitalCovered(event) ==
    event.event_type # "emotion_detection"

is_covered_by_rules(event) ==
    event.event_type \notin {"emotion_detection", "vital_signs"}

is_duplicate(recent, alert, current_time) ==
    \E i \in 1..Len(recent) :
        /\ current_time - recent[i].timestamp < deduplication_window
        /\ recent[i].message = alert.message

cleanup_recent_alerts(recent, current_time) ==
    SelectSeq(recent, LAMBDA a : current_time - a.timestamp < deduplication_window * 2)

\* The alerts process_events builds, in the order it builds them: one pass
\* over the rules, then one pass over the events not covered by rules.
RECURSIVE RuleCandidates(_, _, _, _)
RuleCandidates(rs, events, hour, t) ==
    IF rs = <<>> THEN <<>>
    ELSE apply_rule(Head(rs), events, hour, t) \o RuleCandidates(Tail(rs), events, hour, t)

RECURSIVE IndividualCandidates(_)
IndividualCandidates(events) ==
    IF events = <<>> THEN <<>>
    ELSE (IF is_covered_by_rules(Head(events)) THEN <<>>
          ELSE <<create_individual_alert(Head(events))>>)
         \o IndividualCandidates(Tail(events))

\* Was this message recorded less than the window ago (by recording time)?
RecordedWithin(log, message, t) ==
    \E r \in log : r.message = message /\ t - r.at < deduplication_window

\* The duplicate check and _add_to_recent, candidate by candidate.
RECURSIVE Deduplicate(_, _, _, _)
Deduplicate(cands, recent, log, t) ==
    IF cands = <<>>
    THEN [recent |-> recent, log |-> log, returned |-> <<>>, fate |-> <<>>]
    ELSE LET a == Head(cands)
             dup == is_duplicate(recent, a, t)
             entry == [alert |-> a, discarded |-> dup,
                       recorded_recently |-> RecordedWithin(log, a.message, t)]
             rest == Deduplicate(Tail(cands),
                                 IF dup THEN recent ELSE Append(recent, a),
                                 IF dup THEN log
                                 ELSE {r \in log : r.message # a.message}
                                      \cup {[message |-> a.message, at |-> t]},
                                 t)
         IN  [recent |-> rest.recent, log |-> rest.log,
              returned |-> (IF dup THEN <<>> ELSE <<a>>) \o rest.returned,
              fate |-> <<entry>> \o rest.fate]

Batches(kinds, n) == UNION {[1..m -> kinds] : m \in 0..n}

\* Orchestrator.process_events, called at wall-clock time t
process_events(events, hour, t) ==
    /\ orch_batch' = events
    /\ events_seen' = events_seen + Len(events)
    /\ orch_fresh' = TRUE
    /\ IF events = <<>>
       THEN /\ orch_returned' = <<>>
            /\ orch_candidates' = <<>>
            /\ UNCHANGED <<recent_alerts, event_buffer, record_log>>
       ELSE LET cands == RuleCandidates(rules, events, hour, t)
                         \o IndividualCandidates(events)
                d == Deduplicate(cands, recent_alerts, record_log, t)
            IN  /\ event_buffer' = event_buffer \o events
                /\ recent_alerts' = cleanup_recent_alerts(d.recent, t)
                /\ record_log' = d.log
                /\ orch_returned' = d.returned
                /\ orch_candidates' = d.fate

\* A call of process_events by any caller: the events carry the timestamp
\* of their frame, scen.lag seconds before the call.
ProcessEvents ==
    \E kinds \in Batches(scen.kinds, MaxEvents - events_seen) :
        /\ process_events([i \in 1..Len(kinds) |-> MkEvent(kinds[i], now - scen.lag)],
                          scen.hour, now)
        /\ UNCHANGED <<now, scen, pipeVars, agentVars>>

\* Orchestrator.reset leaving the backlog in place.
OrchReset_KeepsBacklog ==
    /\ recent_alerts # <<>> \/ event_buffer # <<>>
    /\ recent_alerts' = <<>>
    /\ record_log' = {}
    /\ orch_fresh' = FALSE
    /\ UNCHANGED <<now, event_buffer, orch_batch, orch_returned, orch_candidates,
                   events_seen, scen>>
    /\ UNCHANGED <<pipeVars, agentVars>>

\* Orchestrator.reset
OrchReset ==
    /\ recent_alerts # <<>> \/ event_buffer # <<>>
    /\ recent_alerts' = <<>>
    /\ event_buffer' = <<>>
    /\ record_log' = {}
    /\ orch_fresh' = FALSE
    /\ UNCHANGED <<now, orch_batch, orch_returned, orch_candidates, events_seen, scen>>
    /\ UNCHANGED <<pipeVars, agentVars>>

\* The wall clock advances between calls.  Runs are counted from the
\* first batch: the orchestrator holds no time-dependent state before it.
Tick ==
    /\ events_seen > 0
    /\ now < StartTime + MaxTime
    /\ now' = now + 1
    /\ orch_fresh' = FALSE
    /\ UNCHANGED <<recent_alerts, event_buffer, orch_batch,
                   orch_returned, orch_candidates, record_log, events_seen, scen>>
    /\ UNCHANGED <<pipeVars, agentVars>>

InitOrch(scenarios) ==
    /\ recent_alerts = <<>>
    /\ event_buffer = <<>>
    /\ orch_batch = <<>>
    /\ orch_returned = <<>>
    /\ orch_candidates = <<>>
    /\ orch_fresh = FALSE
    /\ record_log = {}
    /\ events_seen = 0
    /\ scen \in scenarios

\* ---------------------------------------------------------------- pipeline
\* The per-frame loop of PatientMonitoringSystem.run (front end "cli") and
\* of monitoring_loop / MonitoringSystem.process_frame (front end "web").
\* What each agent's detect does with a frame is an input here: it returns
\* None, returns an event, or raises.
\* _initialize_agents / MonitoringSystem.initialize: the agents, in order
agents == <<"fall_detection", "emotion_detection", "vital_signs",
            "bed_exit", "immobility", "seizure_detection">>

\* `for agent in self.agents: event = agent.detect(...); if event: events.append(event)`
\* over the first n agents, where the agents in `emitting` return an event.
RECURSIVE CollectEvents(_, _, _)
CollectEvents(n, emitting, ts) ==
    IF n = 0 THEN <<>>
    ELSE LET mine == {k \in emitting : k.event_type = agents[n]}
         IN  CollectEvents(n - 1, emitting, ts)
             \o (IF mine = {} THEN <<>> ELSE <<MkEvent(CHOOSE k \in mine : TRUE, ts)>>)

\* The sets of events one frame can yield: at most one per agent.
FrameYields(kinds, n) ==
    {K \in SUBSET kinds :
        /\ Cardinality(K) <= n
        /\ \A k1, k2 \in K : k1.event_type = k2.event_type => k1 = k2}

\* One iteration of the loop on a frame in which no detect raises: every
\* agent runs, then the orchestrator, scen.lag seconds after the frame
\* was stamped.
FrameProcessed ==
    /\ pipe_running
    /\ now < StartTime + MaxTime
    /\ \E K \in FrameYields(scen.kinds, MaxEvents - events_seen) :
           process_events(CollectEvents(Len(agents), K, now), scen.hour, now + scen.lag)
    /\ pipe_ran' = agents
    /\ pipe_raised' = "none"
    /\ pipe_orchestrated' = TRUE
    /\ now' = now + 1
    /\ UNCHANGED <<scen, pipe_frontend, pipe_running, pipe_stop_reason, agentVars>>

\* One iteration in which the detect of agent r raises: the exception leaves
\* the for loop.  run() has no handler for it (only KeyboardInterrupt), so
\* it unwinds through `finally: self.cleanup()`; monitoring_loop catches it,
\* clears monitoring_active and breaks.
FrameRaises ==
    /\ pipe_running
    /\ now < StartTime + MaxTime
    /\ \E r \in 1..Len(agents) :
           /\ pipe_ran' = SubSeq(agents, 1, r)
           /\ pipe_raised' = agents[r]
    /\ pipe_orchestrated' = FALSE
    /\ pipe_running' = FALSE
    /\ pipe_stop_reason' = "exception"
    /\ orch_fresh' = FALSE
    /\ now' = now + 1
    /\ UNCHANGED <<recent_alerts, event_buffer, orch_batch, orch_returned,
                   orch_candidates, record_log, events_seen, scen, pipe_frontend,
                   agentVars>>

\* read_frame returns (None, None): the loop ends.
EndOfStream ==
    /\ pipe_running
    /\ pipe_running' = FALSE
    /\ pipe_stop_reason' = "end_of_stream"
    /\ pipe_ran' = <<>>
    /\ pipe_raised' = "none"
    /\ pipe_orchestrated' = FALSE
    /\ orch_fresh' = FALSE
    /\ UNCHANGED <<now, recent_alerts, event_buffer, orch_batch, orch_returned,
                   orch_candidates, record_log, events_seen, scen, pipe_frontend,
                   agentVars>>

InitPipe(frontends) ==
    /\ pipe_frontend \in frontends
    /\ pipe_running = TRUE
    /\ pipe_stop_reason = "none"
    /\ pipe_ran = <<>>
    /\ pipe_raised = "none"
    /\ pipe_orchestrated = FALSE

\* ------------------------------------------------------------ camera scene
\* What perception hands an agent for one frame (FrameMetadata): no
\* detection, a detection without pose, or a detection with pose.  A pose is
\* carried by the quantities the agents derive from its keypoints: the pixel
\* row of the hip midpoint and the torso angle from vertical in whole degrees.
frame_height == 720

NoPose == [hip_y |-> NoneVal, angle |-> NoneVal]
NoBox == [x1 |-> 0, y1 |-> 0, x2 |-> 0, y2 |-> 0]

Frame(det, pose, bbox) == [det |-> det, pose |-> pose, bbox |-> bbox]
NoDetection == Frame("none", NoPose, NoBox)

PersonBox == [x1 |-> 400, y1 |-> 300, x2 |-> 700, y2 |-> 600]

\* hip height 0.1 and torso angle 80 degrees
ReferenceLying == [hip_y |-> 648, angle |-> 80]
\* hip height 0.25, torso angle 65 degrees: lying, with confidence 0.54
ShallowLying == [hip_y |-> 540, angle |-> 65]
\* hip height 0.7, upright
Upright == [hip_y |-> 216, angle |-> 5]

FallScene ==
    {NoDetection, Frame("nopose", NoPose, PersonBox)}
        \cup {Frame("pose", p, PersonBox) : p \in {ReferenceLying, ShallowLying, Upright}}

SeizureScene ==
    {NoDetection, Frame("nopose", NoPose, PersonBox), Frame("pose", Upright, PersonBox)}

\* a person lying in the bed, and one standing beside it
BedBox == [x1 |-> 30, y1 |-> 40, x2 |-> 90, y2 |-> 65]
AwayBox == [x1 |-> 100, y1 |-> 20, x2 |-> 120, y2 |-> 70]

\* hip height 0.2, lying flat
InBedPose == [hip_y |-> 576, angle |-> 80]
\* hip height 0.4, torso at 50 degrees
SittingPose == [hip_y |-> 432, angle |-> 50]
\* hip height 0.5, torso at 40 degrees
LeaningPose == [hip_y |-> 360, angle |-> 40]
\* hip height 0.7, torso at 10 degrees
StandingPose == [hip_y |-> 216, angle |-> 10]

BedScene ==
    {NoDetection, Frame("nopose", NoPose, BedBox)}
        \cup {Frame("pose", p, b) : p \in {InBedPose, SittingPose, StandingPose},
                                    b \in {BedBox, AwayBox}}

CalibrationScene ==
    {NoDetection, Frame("nopose", NoPose, BedBox), Frame("pose", InBedPose, BedBox),
     Frame("pose", StandingPose, AwayBox)}

\* The frames the scene can show next: the same as before, or, while the
\* budget lasts, a different one.
NextFrames(scene) == {f \in scene : f = env_last \/ env_changes < MaxChanges}

ShowFrame(f) ==
    /\ env_last' = f
    /\ env_changes' = IF f = env_last THEN env_changes ELSE env_changes + 1

\* The reads of time.time() inside one detect call that starts at `now` and
\* is over by now + 1, in program order.
ClockReads(n) ==
    {rd \in [1..n -> {now, now + 1}] : \A i \in 1..(n - 1) : rd[i] <= rd[i + 1]}

\* ---------------------------------------------------------------- rationals
Rat(n, d) == [n |-> n, d |-> d]
RatLess(a, b) == a.n * b.d < b.n * a.d
RatMul(a, b) == Rat(a.n * b.n, a.d * b.d)
\* min(1.0, a)
RatMin1(a) == IF a.n > a.d THEN Rat(1, 1) ELSE a

Max(a, b) == IF a > b THEN a ELSE b
Min(a, b) == IF a < b THEN a ELSE b

\* ---------------------------------------------------------- TemporalBuffer
TemporalBuffer_add_Unbounded(buffer, item, maxlen) == Append(buffer, item)

TemporalBuffer_add(buffer, item, maxlen) ==
    IF Len(buffer) >= maxlen THEN Tail(buffer) \o <<item>> ELSE Append(buffer, item)

get_latest(buffer) == IF Len(buffer) > 0 THEN buffer[Len(buffer)] ELSE NoneVal

get_oldest_Zero(buffer) == IF Len(buffer) > 0 THEN buffer[1] ELSE 0

get_oldest(buffer) == IF Len(buffer) > 0 THEN buffer[1] ELSE NoneVal

get_all(buffer) == buffer

\* Python's list[start:]: a negative start counts from the end, and -0 is 0
SliceFrom(list, start) ==
    LET from == IF start < 0 THEN Max(Len(list) + start, 0) ELSE Min(start, Len(list))
    IN  SubSeq(list, from + 1, Len(list))

get_window(buffer, window_size) ==
    IF window_size >= Len(buffer) THEN buffer
    ELSE SliceFrom(buffer, -window_size)

is_full(buffer, maxlen) == Len(buffer) = maxlen

\* The buffer driven on its own: items are small numbers, and a call's
\* result is kept as value (an item, a length or None), list or flag.
BufferItems == 1..MaxItem

TemporalCall(op, arg, value, list, flag) ==
    [op |-> op, arg |-> arg, before |-> temporal_buffer, maxlen |-> temporal_maxlen,
     value |-> value, list |-> list, flag |-> flag]

BufferQuery(call) ==
    /\ focus = "buffer"
    /\ temporal_call' = call
    /\ UNCHANGED <<temporal_maxlen, temporal_buffer, temporal_added>>
    /\ UNCHANGED <<now, envVars, fallVars, seizureVars, bedVars, vitalVars,
                   immobilityVars, emotionVars, configVars, probeVars, webVars, trackVars,
                   orchVars, pipeVars>>

BufferAdd ==
    /\ focus = "buffer"
    /\ Len(temporal_added) < MaxAdds
    /\ \E item \in BufferItems :
           /\ temporal_buffer' = TemporalBuffer_add(temporal_buffer, item, temporal_maxlen)
           /\ temporal_added' = Append(temporal_added, item)
           /\ temporal_call' = TemporalCall("add", item, NoneVal, <<>>, FALSE)
    /\ UNCHANGED <<temporal_maxlen, now, envVars, fallVars, seizureVars, bedVars,
                   vitalVars, immobilityVars, emotionVars, configVars, probeVars, webVars, trackVars,
                   orchVars, pipeVars>>

BufferGetLatest ==
    BufferQuery(TemporalCall("get_latest", NoneVal, get_latest(temporal_buffer), <<>>, FALSE))

BufferGetOldest ==
    BufferQuery(TemporalCall("get_oldest", NoneVal, get_oldest(temporal_buffer), <<>>, FALSE))

BufferGetAll ==
    BufferQuery(TemporalCall("get_all", NoneVal, NoneVal, get_all(temporal_buffer), FALSE))

BufferGetWindow ==
    \E window_size \in 0..MaxWindow :
        BufferQuery(TemporalCall("get_window", window_size, NoneVal,
                                 get_window(temporal_buffer, window_size), FALSE))

BufferIsFull ==
    BufferQuery(TemporalCall("is_full", NoneVal, NoneVal, <<>>,
                             is_full(temporal_buffer, temporal_maxlen)))

BufferLen ==
    BufferQuery(TemporalCall("len", NoneVal, Len(temporal_buffer), <<>>, FALSE))

BufferClear ==
    /\ focus = "buffer"
    /\ temporal_buffer' = <<>>
    /\ temporal_added' = <<>>
    /\ temporal_call' = TemporalCall("clear", NoneVal, NoneVal, <<>>, FALSE)
    /\ UNCHANGED <<temporal_maxlen, now, envVars, fallVars, seizureVars, bedVars,
                   vitalVars, immobilityVars, emotionVars, configVars, probeVars, webVars, trackVars,
                   orchVars, pipeVars>>

\* TemporalBuffer(maxlen)
InitTemporalBuffer ==
    /\ temporal_maxlen \in (IF focus = "buffer" THEN 1..MaxCapacity ELSE {1})
    /\ temporal_buffer = <<>>
    /\ temporal_added = <<>>
    /\ temporal_call = TemporalCall("init", NoneVal, NoneVal, <<>>, FALSE)

\* ------------------------------------------------------ FallDetectionAgent
FALL_DETECTION_CONFIG ==
    [sequence_length |-> 30,
     confidence_threshold |-> Rat(7, 10),
     fall_angle_threshold |-> 60,
     hip_height_threshold |-> Rat(3, 10),
     velocity_threshold |-> Rat(1, 2)]

fall_event_cooldown == 3

\* min(1.0, |last_hip_y - first_hip_y| / time_diff / 100.0), 0.0 when the
\* buffer is short or time_diff <= 0
compute_vertical_velocity(buffer) ==
    IF Len(buffer) < 2 THEN Rat(0, 1)
    ELSE LET first_frame == get_oldest(buffer)
             last_frame == get_latest(buffer)
             time_diff == last_frame.timestamp - first_frame.timestamp
             dy == last_frame.pose.hip_y - first_frame.pose.hip_y
         IN  IF time_diff > 0
             THEN RatMin1(Rat(IF dy < 0 THEN -dy ELSE dy, time_diff * 100))
             ELSE Rat(0, 1)

IsLying_HipAbove(hip_height, torso_angle) ==
    /\ RatLess(FALL_DETECTION_CONFIG.hip_height_threshold, hip_height)
    /\ torso_angle > FALL_DETECTION_CONFIG.fall_angle_threshold

IsLying(hip_height, torso_angle) ==
    /\ RatLess(hip_height, FALL_DETECTION_CONFIG.hip_height_threshold)
    /\ torso_angle > FALL_DETECTION_CONFIG.fall_angle_threshold

\* lines 145-179: the indicators, given the velocity line 150 computed
fall_indicators(pose, height, vertical_velocity) ==
    LET torso_angle == pose.angle
        hip_height == Rat(height - pose.hip_y, height)
        cfg == FALL_DETECTION_CONFIG
    IN  [torso_angle |-> torso_angle,
         hip_height |-> hip_height,
         vertical_velocity |-> vertical_velocity,
         is_lying |-> IsLying(hip_height, torso_angle),
         is_falling |-> /\ RatLess(cfg.velocity_threshold, vertical_velocity)
                        /\ 2 * torso_angle > cfg.fall_angle_threshold,
         is_near_fall |-> /\ RatLess(RatMul(cfg.velocity_threshold, Rat(7, 10)),
                                     vertical_velocity)
                          /\ 10 * torso_angle > 7 * cfg.fall_angle_threshold,
         lying_confidence |-> RatMin1(RatMul(Rat(pose.hip_y, height), Rat(torso_angle, 90))),
         fall_confidence |-> RatMin1(RatMul(vertical_velocity, Rat(torso_angle, 90))),
         near_fall_confidence |-> RatMin1(RatMul(vertical_velocity, Rat(8, 10)))]

analyze_fall_indicators(pose, height, buffer) ==
    fall_indicators(pose, height, compute_vertical_velocity(buffer))

\* The classification with `fall` tried before `lying`.
FallClassify_FallFirst(ind) ==
    IF ind.is_falling THEN [fall_type |-> "fall", confidence |-> ind.fall_confidence]
    ELSE IF ind.is_lying THEN [fall_type |-> "lying", confidence |-> ind.lying_confidence]
    ELSE IF ind.is_near_fall
         THEN [fall_type |-> "near_fall", confidence |-> ind.near_fall_confidence]
    ELSE [fall_type |-> "none", confidence |-> Rat(0, 1)]

\* lines 91-102: the first matching classification and its confidence
FallClassify(ind) ==
    IF ind.is_lying THEN [fall_type |-> "lying", confidence |-> ind.lying_confidence]
    ELSE IF ind.is_falling THEN [fall_type |-> "fall", confidence |-> ind.fall_confidence]
    ELSE IF ind.is_near_fall
         THEN [fall_type |-> "near_fall", confidence |-> ind.near_fall_confidence]
    ELSE [fall_type |-> "none", confidence |-> Rat(0, 1)]

FallInCooldown_Never(current_time, last_event_time) == FALSE

\* time.time() - self.last_event_time < self.event_cooldown
FallInCooldown(current_time, last_event_time) ==
    current_time - last_event_time < fall_event_cooldown

\* line 104: `if fall_type and confidence > self.confidence_threshold`
FallEmits(cls) ==
    /\ cls.fall_type # "none"
    /\ RatLess(FALL_DETECTION_CONFIG.confidence_threshold, cls.confidence)

\* The cold-start guard left out.
FallWindowFull_Always(buffer) == TRUE

\* line 80: `if len(self.pose_buffer) < self.sequence_length: return None`
FallWindowFull(buffer) == ~(Len(buffer) < FALL_DETECTION_CONFIG.sequence_length)

FallDetectionEvent(ts, cls, ind) ==
    [event_type |-> "fall_detection", timestamp |-> ts, confidence |-> cls.confidence,
     agent_name |-> "fall_detection", fall_type |-> cls.fall_type,
     torso_angle |-> ind.torso_angle, hip_height |-> ind.hip_height,
     vertical_velocity |-> ind.vertical_velocity]

\* FallDetectionAgent.detect on frame f stamped ts; rd[1] is the clock read
\* of the cooldown check, rd[2] the one stored in last_event_time.
fall_detect(f, ts, rd) ==
    IF ~fall_enabled
    THEN /\ fall_event' = <<>>
         /\ UNCHANGED <<fall_enabled, fall_frame_count, fall_pose_buffer,
                        fall_last_event_time, fall_emit_log, fall_fed>>
    ELSE
    /\ fall_frame_count' = fall_frame_count + 1
    /\ UNCHANGED fall_enabled
    /\ IF f.det # "pose"
       THEN /\ fall_event' = <<>>
            /\ UNCHANGED <<fall_pose_buffer, fall_last_event_time, fall_emit_log, fall_fed>>
       ELSE
       LET buffer == TemporalBuffer_add(fall_pose_buffer,
                        [pose |-> f.pose, timestamp |-> ts, bbox |-> f.bbox],
                        FALL_DETECTION_CONFIG.sequence_length)
           ind == analyze_fall_indicators(f.pose, frame_height, buffer)
           cls == FallClassify(ind)
           emits == /\ FallWindowFull(buffer)
                    /\ ~FallInCooldown(rd[1], fall_last_event_time)
                    /\ FallEmits(cls)
       IN  /\ fall_pose_buffer' = buffer
           /\ fall_fed' = [n |-> fall_fed.n + 1,
                           fixed |-> fall_fed.fixed /\ f.pose = ReferenceLying]
           /\ IF emits
              THEN /\ fall_last_event_time' = rd[2]
                   /\ fall_event' = <<FallDetectionEvent(ts, cls, ind)>>
                   /\ fall_emit_log' = Append(fall_emit_log, rd[2])
              ELSE /\ fall_event' = <<>>
                   /\ UNCHANGED <<fall_last_event_time, fall_emit_log>>

\* The pipeline hands the agent the next frame of the scene.  The clock is
\* read only once the window is full, so only then are the reads inputs.
FallDetect ==
    /\ focus = "fall"
    /\ now < StartTime + FallHorizon
    /\ \E f \in NextFrames(FallScene),
          rd \in (IF Len(fall_pose_buffer) + 1 >= FALL_DETECTION_CONFIG.sequence_length
                  THEN ClockReads(2) ELSE {[i \in 1..2 |-> now]}) :
           /\ ShowFrame(f)
           /\ fall_detect(f, now, rd)
    /\ now' = now + 1
    /\ UNCHANGED <<focus, seizureVars, bedVars, orchVars, pipeVars, otherVars>>

\* Perception hands the agent the scene's frame once more under a timestamp
\* that is not later than the last one buffered: a duplicate, or a frame out
\* of order.  detect treats it like any other frame.
FallDetectStale ==
    /\ focus = "fall"
    /\ now < StartTime + FallHorizon
    /\ env_changes < MaxChanges
    /\ fall_pose_buffer # <<>>
    /\ env_last.det = "pose"
    /\ \E ts \in {get_latest(fall_pose_buffer).timestamp - d : d \in 0..1},
          rd \in (IF Len(fall_pose_buffer) + 1 >= FALL_DETECTION_CONFIG.sequence_length
                  THEN ClockReads(2) ELSE {[i \in 1..2 |-> now]}) :
           fall_detect(env_last, ts, rd)
    /\ env_changes' = env_changes + 1
    /\ now' = now + 1
    /\ UNCHANGED <<focus, env_last, seizureVars, bedVars, orchVars, pipeVars, otherVars>>

\* The measurements the classification is applied to on their own: hip
\* heights around 0.3 (hip_y 504), torso angles around 30, 42 and 60 degrees
\* and up to 180, velocities around 0.35 and 0.5 and up to the cap.
ProbePoses ==
    {[hip_y |-> y, angle |-> a] :
        y \in {216, 503, 504, 505, 648}, a \in {30, 31, 42, 43, 60, 61, 80, 100, 180}}

ProbeVelocities ==
    {Rat(0, 1), Rat(35, 100), Rat(36, 100), Rat(1, 2), Rat(51, 100), Rat(8, 10),
     Rat(88, 100), Rat(9, 10), Rat(1, 1)}

\* Lines 87-121 of detect on an agent whose window is full and whose
\* cooldown has passed: the indicators of the current pose and of the
\* window's velocity, their classification, and whether an event is built.
FallEvaluate ==
    /\ focus = "classify"
    /\ \E pose \in ProbePoses, v \in ProbeVelocities :
           LET ind == fall_indicators(pose, frame_height, v)
               cls == FallClassify(ind)
           IN  fall_classified' = <<[ind |-> ind, cls |-> cls, emitted |-> FallEmits(cls)]>>
    /\ fall_classified' # fall_classified
    /\ UNCHANGED <<now, envVars, fallVars, seizureVars, bedVars, vitalVars,
                   immobilityVars, bufferVars, emotionVars, configVars,
                   seizure_analysed, bed_classified, movement_watch, orchVars, pipeVars, webVars, trackVars>>

\* FallDetectionAgent.reset, called by the supervising application
FallReset ==
    /\ focus = "fall"
    /\ env_changes < MaxChanges
    /\ fall_frame_count > 0
    /\ env_changes' = env_changes + 1
    /\ fall_frame_count' = 0
    /\ fall_pose_buffer' = <<>>
    /\ fall_last_event_time' = 0
    /\ fall_event' = <<>>
    /\ fall_emit_log' = <<>>
    /\ fall_fed' = [n |-> 0, fixed |-> TRUE]
    /\ UNCHANGED <<now, focus, env_last, fall_enabled, seizureVars, bedVars,
                   orchVars, pipeVars, otherVars>>

InitFallAgent ==
    /\ fall_enabled = TRUE
    /\ fall_frame_count = 0
    /\ fall_pose_buffer = <<>>
    /\ fall_last_event_time = 0
    /\ fall_event = <<>>
    /\ fall_emit_log = <<>>
    /\ fall_fed = [n |-> 0, fixed |-> TRUE]

\* --------------------------------------------------- SeizureDetectionAgent
SEIZURE_DETECTION_CONFIG ==
    [magnitude_threshold |-> Rat(3, 10),
     duration_threshold |-> 5,
     confidence_threshold |-> Rat(75, 100),
     affected_limbs_min |-> 2]

seizure_buffer_size == 150
seizure_event_cooldown == 10

limbs == <<"left_arm", "right_arm", "left_leg", "right_leg">>

\* What _fft_analysis finds for each limb over the current window is an
\* input of the model: whether the limb shows the seizure pattern, and the
\* magnitude and frequency (Hz) of its dominant component.
Still == [is_seizure_pattern |-> FALSE, magnitude |-> Rat(0, 1), frequency |-> 0]
Shaking(mag, hz) == [is_seizure_pattern |-> TRUE, magnitude |-> mag, frequency |-> hz]

Spectra ==
    {[l \in 1..4 |-> Still],
     [l \in 1..4 |-> IF l = 1 THEN Shaking(Rat(6, 10), 5) ELSE Still],
     [l \in 1..4 |-> IF l <= 2 THEN Shaking(Rat(45, 100), 4) ELSE Still],
     [l \in 1..4 |-> Shaking(Rat(6, 10), 5 + l)]}

RECURSIVE LimbScan(_, _)
\* the loop of lines 129-142 over the first n limbs
LimbScan(fft, n) ==
    IF n = 0
    THEN [affected_limbs |-> <<>>, magnitude |-> Rat(0, 1), dominant_frequency |-> 0]
    ELSE LET acc == LimbScan(fft, n - 1)
             r == fft[n]
         IN  IF r.is_seizure_pattern
             THEN [affected_limbs |-> Append(acc.affected_limbs, limbs[n]),
                   magnitude |-> IF RatLess(acc.magnitude, r.magnitude)
                                 THEN r.magnitude ELSE acc.magnitude,
                   dominant_frequency |-> IF r.frequency > acc.dominant_frequency
                                          THEN r.frequency ELSE acc.dominant_frequency]
             ELSE acc

analyze_limb_movements(fft) ==
    LET acc == LimbScan(fft, Len(limbs))
        cfg == SEIZURE_DETECTION_CONFIG
    IN  [seizure_detected |-> Len(acc.affected_limbs) >= cfg.affected_limbs_min,
         affected_limbs |-> acc.affected_limbs,
         magnitude |-> acc.magnitude,
         dominant_frequency |-> acc.dominant_frequency,
         confidence |-> RatMin1(RatMul(Rat(Len(acc.affected_limbs), 4),
                                       Rat(acc.magnitude.n * cfg.magnitude_threshold.d,
                                           acc.magnitude.d * cfg.magnitude_threshold.n)))]

SeizureInCooldown_Never(current_time, last_event_time) == FALSE

\* time.time() - self.last_event_time < self.event_cooldown
SeizureInCooldown(current_time, last_event_time) ==
    current_time - last_event_time < seizure_event_cooldown

SeizureDetectionEvent(ts, ind, duration) ==
    [event_type |-> "seizure_detection", timestamp |-> ts, confidence |-> ind.confidence,
     agent_name |-> "seizure_detection", seizure_detected |-> TRUE,
     motion_frequency |-> ind.dominant_frequency, affected_limbs |-> ind.affected_limbs,
     duration |-> duration, magnitude |-> ind.magnitude]

\* SeizureDetectionAgent.detect on frame f stamped ts, fft being what the
\* spectrum analysis of the window finds.  Clock reads in program order:
\* rd[1] cooldown check, rd[2] episode start, rd[3] duration, rd[4]
\* last_event_time.
seizure_detect(f, ts, fft, rd) ==
    IF ~seizure_enabled
    THEN /\ seizure_event' = <<>>
         /\ UNCHANGED <<seizure_enabled, seizure_frame_count, seizure_pose_buffer,
                        seizure_start_time, seizure_last_event_time,
                        seizure_emit_log, seizure_watch>>
    ELSE
    /\ seizure_frame_count' = seizure_frame_count + 1
    /\ UNCHANGED seizure_enabled
    /\ IF f.det # "pose"
       THEN /\ seizure_event' = <<>>
            /\ UNCHANGED <<seizure_pose_buffer, seizure_start_time,
                           seizure_last_event_time, seizure_emit_log, seizure_watch>>
       ELSE
       LET buffer == TemporalBuffer_add(seizure_pose_buffer,
                        [pose |-> f.pose, timestamp |-> ts], seizure_buffer_size)
           ind == analyze_limb_movements(fft)
           full == Len(buffer) >= seizure_buffer_size
           analysed == full /\ ~SeizureInCooldown(rd[1], seizure_last_event_time)
           start == IF seizure_start_time = NoneVal THEN rd[2] ELSE seizure_start_time
           duration == rd[3] - start
           emits == /\ analysed
                    /\ ind.seizure_detected
                    /\ duration > SEIZURE_DETECTION_CONFIG.duration_threshold
       IN  /\ seizure_pose_buffer' = buffer
           /\ seizure_start_time' =
                  IF ~analysed THEN seizure_start_time
                  ELSE IF ind.seizure_detected THEN start
                  ELSE NoneVal
           /\ IF emits
              THEN /\ seizure_last_event_time' = rd[4]
                   /\ seizure_event' = <<SeizureDetectionEvent(ts, ind, duration)>>
                   /\ seizure_emit_log' = Append(seizure_emit_log, rd[4])
              ELSE /\ seizure_event' = <<>>
                   /\ UNCHANGED <<seizure_last_event_time, seizure_emit_log>>
           /\ seizure_watch' =
                  IF ~full THEN seizure_watch
                  ELSE [condition |-> IF ind.seizure_detected THEN "true" ELSE "false",
                        held_since |-> IF ~ind.seizure_detected THEN NoneVal
                                       ELSE IF seizure_watch.held_since = NoneVal THEN ts
                                       ELSE seizure_watch.held_since,
                        emitted_at |-> IF emits THEN rd[3] ELSE NoneVal]

\* The window takes seizure_buffer_size pose-bearing frames to fill; the
\* scene is taken to be steady, and the operator to stay away, while it
\* fills: the scene changes and reset is called (within the budget) once the
\* window is about to be full.
SeizureSceneMayChange ==
    Len(seizure_pose_buffer) + 1 >= seizure_buffer_size

\* The spectrum and the clock are consulted only once the window is full.
SeizureDetect ==
    /\ focus = "seizure"
    /\ now < StartTime + SeizureHorizon
    /\ \E f \in {g \in NextFrames(SeizureScene) : g = env_last \/ SeizureSceneMayChange},
          fft \in (IF Len(seizure_pose_buffer) + 1 >= seizure_buffer_size
                   THEN Spectra ELSE {[l \in 1..4 |-> Still]}),
          rd \in (IF Len(seizure_pose_buffer) + 1 >= seizure_buffer_size
                  THEN ClockReads(4) ELSE {[i \in 1..4 |-> now]}) :
           /\ ShowFrame(f)
           /\ seizure_detect(f, now, fft, rd)
    /\ now' = now + 1
    /\ UNCHANGED <<focus, fallVars, bedVars, orchVars, pipeVars, otherVars>>

\* A patient whose arms tremble just above the magnitude threshold (peak
\* 0.31 in both arms, legs still), or not at all.
FaintSpectra ==
    {[l \in 1..4 |-> Still],
     [l \in 1..4 |-> IF l <= 2 THEN Shaking(Rat(31, 100), 4) ELSE Still]}

\* SeizureDetectionAgent.detect fed that patient, always in view.
SeizureDetectFaint ==
    /\ focus = "faint"
    /\ now < StartTime + SeizureHorizon
    /\ \E fft \in (IF Len(seizure_pose_buffer) + 1 >= seizure_buffer_size
                   THEN FaintSpectra ELSE {[l \in 1..4 |-> Still]}),
          rd \in (IF Len(seizure_pose_buffer) + 1 >= seizure_buffer_size
                  THEN ClockReads(4) ELSE {[i \in 1..4 |-> now]}) :
           /\ ShowFrame(Frame("pose", Upright, PersonBox))
           /\ seizure_detect(Frame("pose", Upright, PersonBox), now, fft, rd)
    /\ now' = now + 1
    /\ UNCHANGED <<focus, fallVars, bedVars, orchVars, pipeVars, otherVars>>

\* A duplicate or out-of-order frame, as for the fall agent; like a scene
\* change it comes once the window is about to be full.
SeizureDetectStale ==
    /\ focus = "seizure"
    /\ now < StartTime + SeizureHorizon
    /\ env_changes < MaxChanges
    /\ SeizureSceneMayChange
    /\ seizure_pose_buffer # <<>>
    /\ env_last.det = "pose"
    /\ \E ts \in {get_latest(seizure_pose_buffer).timestamp - d : d \in 0..1},
          fft \in (IF Len(seizure_pose_buffer) + 1 >= seizure_buffer_size
                   THEN Spectra ELSE {[l \in 1..4 |-> Still]}),
          rd \in (IF Len(seizure_pose_buffer) + 1 >= seizure_buffer_size
                  THEN ClockReads(4) ELSE {[i \in 1..4 |-> now]}) :
           seizure_detect(env_last, ts, fft, rd)
    /\ env_changes' = env_changes + 1
    /\ now' = now + 1
    /\ UNCHANGED <<focus, env_last, fallVars, bedVars, orchVars, pipeVars, otherVars>>

\* SeizureDetectionAgent.reset
SeizureReset ==
    /\ focus = "seizure"
    /\ env_changes < MaxChanges
    /\ SeizureSceneMayChange
    /\ seizure_frame_count > 0
    /\ env_changes' = env_changes + 1
    /\ seizure_frame_count' = 0
    /\ seizure_pose_buffer' = <<>>
    /\ seizure_start_time' = NoneVal
    /\ seizure_last_event_time' = 0
    /\ seizure_event' = <<>>
    /\ seizure_emit_log' = <<>>
    /\ seizure_watch' = [condition |-> "unknown", held_since |-> NoneVal,
                         emitted_at |-> NoneVal]
    /\ UNCHANGED <<now, focus, env_last, seizure_enabled, fallVars, bedVars,
                   orchVars, pipeVars, otherVars>>

InitSeizureAgent ==
    /\ seizure_enabled = TRUE
    /\ seizure_frame_count = 0
    /\ seizure_pose_buffer = <<>>
    /\ seizure_start_time = NoneVal
    /\ seizure_last_event_time = 0
    /\ seizure_event = <<>>
    /\ seizure_emit_log = <<>>
    /\ seizure_watch = [condition |-> "unknown", held_since |-> NoneVal,
                        emitted_at |-> NoneVal]

\* ------------------------------------------------------------ BedExitAgent
BED_EXIT_CONFIG ==
    [transition_confidence |-> Rat(7, 10),
     sitting_angle_threshold |-> 45,
     standing_height_threshold |-> Rat(6, 10),
     alert_on_states |-> {"STANDING", "OUT_OF_BED"}]

calibration_frames_needed == 30

\* Box coordinates are kept as integers: a camera box in pixels, the
\* calibrated bed region in units of 1 / RegionScale pixel, which makes the
\* mean over the calibration frames and the 10 % margins exact.
RegionScale == calibration_frames_needed * 10

ScaleBox(b, k) == [x1 |-> b.x1 * k, y1 |-> b.y1 * k, x2 |-> b.x2 * k, y2 |-> b.y2 * k]


\* geometry.compute_iou, as the fraction intersection / union
compute_iou(bbox1, bbox2) ==
    LET x1 == Max(bbox1.x1, bbox2.x1)
        y1 == Max(bbox1.y1, bbox2.y1)
        x2 == Min(bbox1.x2, bbox2.x2)
        y2 == Min(bbox1.y2, bbox2.y2)
        intersection == Max(0, x2 - x1) * Max(0, y2 - y1)
        area1 == (bbox1.x2 - bbox1.x1) * (bbox1.y2 - bbox1.y1)
        area2 == (bbox2.x2 - bbox2.x1) * (bbox2.y2 - bbox2.y1)
        union == area1 + area2 - intersection
    IN  IF union > 0 THEN Rat(intersection, union) ELSE Rat(0, 1)

\* The classification with the overlap test tried before the standing test.
determine_state_OverlapFirst(person_bbox, pose, height, region) ==
    LET hip_height == Rat(height - pose.hip_y, height)
        torso_angle == pose.angle
        overlap == IF region # <<>>
                   THEN compute_iou(ScaleBox(person_bbox, RegionScale), region[1])
                   ELSE Rat(0, 1)
    IN  IF RatLess(overlap, Rat(3, 10)) THEN "OUT_OF_BED"
        ELSE IF RatLess(BED_EXIT_CONFIG.standing_height_threshold, hip_height)
                /\ torso_angle < 30
        THEN "STANDING"
        ELSE IF /\ torso_angle > BED_EXIT_CONFIG.sitting_angle_threshold
                /\ RatLess(Rat(3, 10), hip_height)
             THEN "SITTING_UP"
        ELSE "IN_BED"

determine_state(person_bbox, pose, height, region) ==
    LET hip_height == Rat(height - pose.hip_y, height)
        torso_angle == pose.angle
        overlap == IF region # <<>>
                   THEN compute_iou(ScaleBox(person_bbox, RegionScale), region[1])
                   ELSE Rat(0, 1)
    IN  IF RatLess(BED_EXIT_CONFIG.standing_height_threshold, hip_height) /\ torso_angle < 30
        THEN "STANDING"
        ELSE IF RatLess(overlap, Rat(3, 10)) THEN "OUT_OF_BED"
        ELSE IF /\ torso_angle > BED_EXIT_CONFIG.sitting_angle_threshold
                /\ RatLess(Rat(3, 10), hip_height)
             THEN "SITTING_UP"
        ELSE "IN_BED"

RECURSIVE SumBoxes(_)
SumBoxes(bboxes) ==
    IF bboxes = <<>> THEN NoBox
    ELSE LET s == SumBoxes(Tail(bboxes))
             b == Head(bboxes)
         IN  [x1 |-> s.x1 + b.x1, y1 |-> s.y1 + b.y1, x2 |-> s.x2 + b.x2, y2 |-> s.y2 + b.y2]

CalibratedRegion_NoMargin(bboxes) ==
    LET s == SumBoxes(bboxes)
    IN  [x1 |-> 10 * s.x1, y1 |-> 10 * s.y1, x2 |-> 10 * s.x2, y2 |-> 10 * s.y2]

\* lines 155-170: the mean box widened by a tenth of its width and height
\* on each side, in units of 1 / (10 * number of boxes) pixel
CalibratedRegion(bboxes) ==
    LET s == SumBoxes(bboxes)
    IN  [x1 |-> 11 * s.x1 - s.x2, y1 |-> 11 * s.y1 - s.y2,
         x2 |-> 11 * s.x2 - s.x1, y2 |-> 11 * s.y2 - s.y1]

\* _calibrate_bed_region: always returns None
calibrate_bed_region_CountsEveryFrame(f) ==
    /\ bed_event' = <<>>
    /\ bed_watch' = [before |-> bed_current_state, classified |-> "none"]
    /\ UNCHANGED <<bed_current_state, bed_state_start_time, bed_last_transition_time>>
    /\ LET bboxes == Append(bed_calibration_bboxes, f.bbox)
       IN  /\ bed_calibration_bboxes' = bboxes
           /\ bed_calibration_frames' = bed_calibration_frames + 1
           /\ bed_region' = IF bed_calibration_frames + 1 >= calibration_frames_needed
                            THEN <<CalibratedRegion(bboxes)>>
                            ELSE bed_region

calibrate_bed_region(f) ==
    /\ bed_event' = <<>>
    /\ bed_watch' = [before |-> bed_current_state, classified |-> "none"]
    /\ UNCHANGED <<bed_current_state, bed_state_start_time, bed_last_transition_time>>
    /\ IF f.det = "none"
       THEN UNCHANGED <<bed_region, bed_calibration_frames, bed_calibration_bboxes>>
       ELSE LET bboxes == Append(bed_calibration_bboxes, f.bbox)
            IN  /\ bed_calibration_bboxes' = bboxes
                /\ bed_calibration_frames' = bed_calibration_frames + 1
                /\ bed_region' = IF bed_calibration_frames + 1 >= calibration_frames_needed
                                 THEN <<CalibratedRegion(bboxes)>>
                                 ELSE bed_region

BedEmits_AnyAlertState(transition, new_state) ==
    new_state \in BED_EXIT_CONFIG.alert_on_states

\* lines 80 and 88: an event is built inside `if transition:` and only for
\* an alert state
BedEmits(transition, new_state) ==
    transition /\ new_state \in BED_EXIT_CONFIG.alert_on_states

BedExitEvent(ts, new_state, previous_state, region, person_bbox) ==
    [event_type |-> "bed_exit", timestamp |-> ts,
     confidence |-> BED_EXIT_CONFIG.transition_confidence, agent_name |-> "bed_exit",
     state |-> new_state, previous_state |-> previous_state, transition |-> TRUE,
     duration_in_state |-> 0, bed_region |-> region, person_bbox |-> person_bbox]

\* BedExitAgent.detect on frame f stamped ts; t is the clock read stored in
\* last_transition_time.
bed_detect(f, ts, t) ==
    IF ~bed_enabled
    THEN /\ bed_event' = <<>>
         /\ bed_watch' = [before |-> bed_current_state, classified |-> "none"]
         /\ UNCHANGED <<bed_enabled, bed_frame_count, bed_region, bed_current_state,
                        bed_state_start_time, bed_last_transition_time,
                        bed_calibration_frames, bed_calibration_bboxes>>
    ELSE
    /\ bed_frame_count' = bed_frame_count + 1
    /\ UNCHANGED bed_enabled
    /\ IF bed_region = <<>> THEN calibrate_bed_region(f)
       ELSE
       /\ UNCHANGED <<bed_region, bed_calibration_frames, bed_calibration_bboxes>>
       /\ IF f.det # "pose"
          THEN /\ bed_event' = <<>>
               /\ bed_watch' = [before |-> bed_current_state, classified |-> "none"]
               /\ UNCHANGED <<bed_current_state, bed_state_start_time,
                              bed_last_transition_time>>
          ELSE
          LET new_state == determine_state(f.bbox, f.pose, frame_height, bed_region)
              transition == new_state # bed_current_state
              previous_state == bed_current_state
          IN  /\ bed_watch' = [before |-> bed_current_state, classified |-> new_state]
              /\ IF transition
                 THEN /\ bed_current_state' = new_state
                      /\ bed_last_transition_time' = t
                      /\ bed_state_start_time' = t
                 ELSE UNCHANGED <<bed_current_state, bed_state_start_time,
                                  bed_last_transition_time>>
              /\ bed_event' = IF BedEmits(transition, new_state)
                              THEN <<BedExitEvent(ts, new_state, previous_state,
                                                  bed_region[1], f.bbox)>>
                              ELSE <<>>

\* While the bed region is being calibrated the scene is one of
\* CalibrationScene; it changes (within its budget) before the first box is
\* taken or when the last one is about to be, and is steady in between.
BedSceneMayChange ==
    \/ bed_calibration_frames = 0
    \/ bed_calibration_frames + 1 >= calibration_frames_needed

\* After calibration the boxes are no longer stored and any frame of
\* BedScene may follow.
BedDetect ==
    /\ focus = "bed_exit"
    /\ now < StartTime + BedHorizon
    /\ \E f \in (IF bed_region = <<>>
                 THEN {g \in NextFrames(CalibrationScene) : g = env_last \/ BedSceneMayChange}
                 ELSE BedScene),
          t \in {now, now + 1} :
           /\ env_last' = f
           /\ env_changes' = IF bed_region = <<>> /\ f # env_last
                             THEN env_changes + 1 ELSE env_changes
           /\ bed_detect(f, now, t)
    /\ now' = now + 1
    /\ UNCHANGED <<focus, bed_walk, fallVars, seizureVars, orchVars, pipeVars, otherVars>>

\* BedExitAgent.reset: the bed region and the calibration data stay
BedReset ==
    /\ focus = "bed_exit"
    /\ bed_frame_count > 0
    /\ env_changes < MaxChanges
    /\ env_changes' = env_changes + 1
    /\ bed_frame_count' = 0
    /\ bed_current_state' = "IN_BED"
    /\ bed_state_start_time' = now
    /\ bed_last_transition_time' = 0
    /\ bed_event' = <<>>
    /\ bed_watch' = [before |-> "IN_BED", classified |-> "none"]
    /\ UNCHANGED <<now, focus, env_last, bed_enabled, bed_region, bed_calibration_frames,
                   bed_calibration_bboxes, bed_walk, fallVars, seizureVars, orchVars,
                   pipeVars, otherVars>>

\* A patient getting up: the hip rises and the torso straightens.
WalkScene ==
    {NoDetection} \cup {Frame("pose", p, BedBox) :
                            p \in {InBedPose, SittingPose, LeaningPose, StandingPose}}

\* The frames that keep the pose sequence fed so far monotone: hip height
\* not falling (pixel row not rising), torso angle not rising.
MonotoneFrames ==
    {f \in WalkScene :
        f.det = "pose" /\ bed_walk.last # NoPose =>
            /\ f.pose.hip_y <= bed_walk.last.hip_y
            /\ f.pose.angle <= bed_walk.last.angle}

\* BedExitAgent.detect of an agent constructed with config["bed_region"] set,
\* fed a monotone pose sequence.
BedWalkDetect ==
    /\ focus = "bed_walk"
    /\ now < StartTime + BedWalkHorizon
    /\ \E f \in MonotoneFrames, t \in {now, now + 1} :
           /\ env_last' = f
           /\ bed_detect(f, now, t)
           /\ bed_walk' =
                  IF f.det # "pose" THEN bed_walk
                  ELSE LET new_state == determine_state(f.bbox, f.pose, frame_height, bed_region)
                       IN  [first |-> IF bed_walk.first = "none" THEN new_state
                                      ELSE bed_walk.first,
                            last |-> f.pose,
                            path |-> IF new_state # bed_current_state
                                     THEN Append(bed_walk.path, new_state)
                                     ELSE bed_walk.path,
                            events |-> bed_walk.events + Len(bed_event')]
    /\ now' = now + 1
    /\ UNCHANGED <<focus, env_changes, fallVars, seizureVars, orchVars, pipeVars, otherVars>>

\* config.get("bed_region", None): None by default, which starts the
\* auto-calibration; a configured region is used as it is.
ConfiguredBedRegion == ScaleBox(BedBox, RegionScale)

InitBedExitAgent ==
    /\ bed_enabled = TRUE
    /\ bed_frame_count = 0
    /\ bed_region = IF focus = "bed_walk" THEN <<ConfiguredBedRegion>> ELSE <<>>
    /\ bed_walk = [first |-> "none", last |-> NoPose, path |-> <<"IN_BED">>, events |-> 0]
    /\ bed_current_state = "IN_BED"
    /\ bed_state_start_time = StartTime
    /\ bed_last_transition_time = 0
    /\ bed_calibration_frames = 0
    /\ bed_calibration_bboxes = <<>>
    /\ bed_event = <<>>
    /\ bed_watch = [before |-> "IN_BED", classified |-> "none"]

\* --------------------------------------------------------- VitalSignsAgent
VITAL_SIGNS_CONFIG ==
    [window_size |-> 300,
     hr_range |-> <<40, 180>>,
     rr_range |-> <<8, 30>>,
     signal_quality_threshold |-> Rat(6, 10),
     update_interval |-> 30]

frame_width == 1280

\* What perception hands the vital-signs agent for one frame: no detection,
\* a detection without a face box, or a detection with one.
FaceFrame(det, face_bbox) == [det |-> det, face_bbox |-> face_bbox]

FaceBox == [x1 |-> 600, y1 |-> 100, x2 |-> 700, y2 |-> 220]
\* a face box that lies left of the frame
OffFrameFaceBox == [x1 |-> -50, y1 |-> 100, x2 |-> 0, y2 |-> 200]

VitalScene ==
    {FaceFrame("none", NoBox), FaceFrame("noface", NoBox),
     FaceFrame("face", FaceBox), FaceFrame("face", OffFrameFaceBox)}

\* lines 74-78: the face box clipped to the frame; empty crops are dropped
FaceRoi(face_bbox) ==
    [x1 |-> Max(0, face_bbox.x1), y1 |-> Max(0, face_bbox.y1),
     x2 |-> Min(frame_width, face_bbox.x2), y2 |-> Min(frame_height, face_bbox.y2)]

\* What RPPGProcessor.process returns for the window is an input of the
\* model: None (<<>>) or one measurement.
Measurement(hr, rr, quality) ==
    [heart_rate |-> hr, respiratory_rate |-> rr, signal_quality |-> quality,
     hr_confidence |-> Rat(1, 2), rr_confidence |-> Rat(1, 2)]

Measurements ==
    {<<>>,
     <<Measurement(72, 16, Rat(8, 10))>>,
     <<Measurement(40, 8, Rat(6, 10))>>,
     <<Measurement(180, 30, Rat(1, 1))>>,
     <<Measurement(39, 16, Rat(8, 10))>>,
     <<Measurement(181, 16, Rat(8, 10))>>,
     <<Measurement(72, 7, Rat(8, 10))>>,
     <<Measurement(72, 31, Rat(8, 10))>>,
     <<Measurement(72, 16, Rat(59, 100))>>,
     <<Measurement(0, 0, Rat(1, 1))>>}

VitalValid_NoQuality(vital_signs) ==
    /\ VITAL_SIGNS_CONFIG.hr_range[1] <= vital_signs.heart_rate
    /\ vital_signs.heart_rate <= VITAL_SIGNS_CONFIG.hr_range[2]
    /\ VITAL_SIGNS_CONFIG.rr_range[1] <= vital_signs.respiratory_rate
    /\ vital_signs.respiratory_rate <= VITAL_SIGNS_CONFIG.rr_range[2]

\* lines 100-104: hr_valid and rr_valid and quality_valid
VitalValid(vital_signs) ==
    /\ VITAL_SIGNS_CONFIG.hr_range[1] <= vital_signs.heart_rate
    /\ vital_signs.heart_rate <= VITAL_SIGNS_CONFIG.hr_range[2]
    /\ VITAL_SIGNS_CONFIG.rr_range[1] <= vital_signs.respiratory_rate
    /\ vital_signs.respiratory_rate <= VITAL_SIGNS_CONFIG.rr_range[2]
    /\ ~RatLess(vital_signs.signal_quality, VITAL_SIGNS_CONFIG.signal_quality_threshold)

VitalSignsEvent(ts, vital_signs) ==
    [event_type |-> "vital_signs", timestamp |-> ts,
     confidence |-> vital_signs.signal_quality, agent_name |-> "vital_signs",
     heart_rate |-> vital_signs.heart_rate,
     respiratory_rate |-> vital_signs.respiratory_rate,
     signal_quality |-> vital_signs.signal_quality,
     hr_confidence |-> vital_signs.hr_confidence,
     rr_confidence |-> vital_signs.rr_confidence]

VitalIdle == [ran |-> FALSE, result |-> <<>>]

\* VitalSignsAgent.detect on frame f stamped ts, m being what the signal
\* processor returns if it is run on the window.
vital_detect(f, ts, m) ==
    IF ~vital_enabled
    THEN /\ vital_event' = <<>>
         /\ vital_watch' = VitalIdle
         /\ UNCHANGED <<vital_enabled, vital_frame_count, vital_face_roi_buffer,
                        vital_last_update_frame, vital_runs>>
    ELSE
    /\ vital_frame_count' = vital_frame_count + 1
    /\ UNCHANGED vital_enabled
    /\ LET roi == FaceRoi(f.face_bbox)
       IN
       IF f.det # "face" \/ roi.x2 <= roi.x1 \/ roi.y2 <= roi.y1
       THEN /\ vital_event' = <<>>
            /\ vital_watch' = VitalIdle
            /\ UNCHANGED <<vital_face_roi_buffer, vital_last_update_frame, vital_runs>>
       ELSE
       LET buffer == TemporalBuffer_add(vital_face_roi_buffer, roi,
                                        VITAL_SIGNS_CONFIG.window_size)
           runs == /\ ~(vital_frame_count' - vital_last_update_frame
                            < VITAL_SIGNS_CONFIG.update_interval)
                   /\ ~(Len(buffer) < VITAL_SIGNS_CONFIG.window_size)
           emits == runs /\ m # <<>> /\ VitalValid(m[1])
       IN  /\ vital_face_roi_buffer' = buffer
           /\ vital_watch' = [ran |-> runs, result |-> IF runs THEN m ELSE <<>>]
           /\ vital_runs' =
                  IF runs
                  THEN [vital_runs EXCEPT !.runs = <<vital_runs.runs[2], vital_frame_count'>>,
                                          !.emits = IF emits
                                                    THEN <<vital_runs.emits[2],
                                                           vital_frame_count'>>
                                                    ELSE vital_runs.emits]
                  ELSE vital_runs
           /\ IF emits
              THEN /\ vital_last_update_frame' = vital_frame_count'
                   /\ vital_event' = <<VitalSignsEvent(ts, m[1])>>
              ELSE /\ vital_event' = <<>>
                   /\ UNCHANGED vital_last_update_frame

\* The window takes window_size face crops to fill; the scene is taken to
\* be steady, and the operator to stay away, while it fills.
VitalSceneMayChange ==
    Len(vital_face_roi_buffer) + 1 >= VITAL_SIGNS_CONFIG.window_size

\* The processor is consulted only once the window is full.
VitalDetect ==
    /\ focus = "vital_signs"
    /\ now < StartTime + VitalHorizon
    /\ \E f \in {g \in NextFrames(VitalScene) : g = env_last \/ VitalSceneMayChange},
          m \in (IF VitalSceneMayChange THEN Measurements ELSE {<<>>}) :
           /\ ShowFrame(f)
           /\ vital_detect(f, now, m)
    /\ now' = now + 1
    /\ UNCHANGED <<focus, fallVars, seizureVars, bedVars, immobilityVars, restVars,
                   orchVars, pipeVars>>

\* VitalSignsAgent.reset (RPPGProcessor.reset does nothing)
VitalReset ==
    /\ focus = "vital_signs"
    /\ env_changes < MaxChanges
    /\ VitalSceneMayChange
    /\ env_changes' = env_changes + 1
    /\ vital_frame_count' = 0
    /\ vital_face_roi_buffer' = <<>>
    /\ vital_last_update_frame' = 0
    /\ vital_event' = <<>>
    /\ vital_watch' = VitalIdle
    /\ vital_runs' = [runs |-> <<NoneVal, NoneVal>>, emits |-> <<NoneVal, NoneVal>>]
    /\ UNCHANGED <<now, focus, env_last, vital_enabled, fallVars, seizureVars, bedVars,
                   immobilityVars, restVars, orchVars, pipeVars>>

InitVitalSignsAgent ==
    /\ vital_enabled = TRUE
    /\ vital_frame_count = 0
    /\ vital_face_roi_buffer = <<>>
    /\ vital_last_update_frame = 0
    /\ vital_event = <<>>
    /\ vital_watch = VitalIdle
    /\ vital_runs = [runs |-> <<NoneVal, NoneVal>>, emits |-> <<NoneVal, NoneVal>>]

\* ---------------------------------------------------------- ImmobilityAgent
IMMOBILITY_CONFIG ==
    [movement_threshold |-> Rat(5, 100),
     alert_duration |-> 7200,
     warning_duration |-> 5400,
     check_interval |-> 60]

immobility_buffer_size == 30

\* A pose as the immobility agent reads it: nose, shoulders and hips move
\* together, x is their common offset in hundredths, visible tells whether
\* their visibility exceeds 0.5, angle is the torso angle in degrees and
\* shoulder_above whether mid_shoulder_y < mid_hip_y.
ImmobilityPose(x, visible, angle, shoulder_above) ==
    [x |-> x, visible |-> visible, angle |-> angle, shoulder_above |-> shoulder_above]

ImmobilityFrame(det, pose) == [det |-> det, pose |-> pose]

NoImmobilityPose == ImmobilityPose(NoneVal, FALSE, NoneVal, FALSE)

ImmobilityScene ==
    {ImmobilityFrame("none", NoImmobilityPose),
     ImmobilityFrame("nopose", NoImmobilityPose),
     ImmobilityFrame("pose", ImmobilityPose(50, TRUE, 80, FALSE)),
     ImmobilityFrame("pose", ImmobilityPose(56, TRUE, 20, TRUE))}

\* Calls of detect may be far apart: the loop waits for frames, and the
\* calls made while the agent is disabled do nothing.
ImmobilitySteps == {60, 1800, 3600}

Abs(x) == IF x < 0 THEN -x ELSE x

\* _compute_movement with the displacements summed and not averaged.
compute_movement_Total(pose1, pose2) ==
    LET count == IF pose1.visible /\ pose2.visible THEN 5 ELSE 0
        total_displacement == count * Abs(pose1.x - pose2.x)
    IN  IF count > 0 THEN Rat(total_displacement, 100) ELSE Rat(0, 1)

\* _compute_movement: mean displacement of the key points visible in both
compute_movement(pose1, pose2) ==
    LET count == IF pose1.visible /\ pose2.visible THEN 5 ELSE 0
        total_displacement == count * Abs(pose1.x - pose2.x)
    IN  IF count > 0 THEN Rat(total_displacement, count * 100) ELSE Rat(0, 1)

determine_posture(pose) ==
    IF pose.angle > 60 THEN "lying_side"
    ELSE IF pose.shoulder_above THEN "prone"
    ELSE "supine"

ImmobilityCheckDue_Always(current_time) == TRUE

\* lines 95-97: the periodic check
ImmobilityCheckDue(current_time) ==
    ~(current_time - immobility_last_check_time < IMMOBILITY_CONFIG.check_interval)

\* The risk level without the warning stage.
ImmobilityRiskLevel_AlertOnly(immobility_duration) ==
    IF immobility_duration > IMMOBILITY_CONFIG.alert_duration THEN "HIGH"
    ELSE "LOW"

ImmobilityRiskLevel_AtThreshold(immobility_duration) ==
    IF immobility_duration >= IMMOBILITY_CONFIG.alert_duration THEN "HIGH"
    ELSE IF immobility_duration >= IMMOBILITY_CONFIG.warning_duration THEN "MEDIUM"
    ELSE "LOW"

\* lines 104-110
ImmobilityRiskLevel(immobility_duration) ==
    IF immobility_duration > IMMOBILITY_CONFIG.alert_duration THEN "HIGH"
    ELSE IF immobility_duration > IMMOBILITY_CONFIG.warning_duration THEN "MEDIUM"
    ELSE "LOW"

ImmobilityEvent(ts, immobility_duration, last_movement_time, risk_level, posture, count) ==
    [event_type |-> "immobility", timestamp |-> ts,
     confidence |-> RatMin1(Rat(immobility_duration, IMMOBILITY_CONFIG.alert_duration)),
     agent_name |-> "immobility",
     immobility_duration |-> immobility_duration,
     last_movement_time |-> last_movement_time,
     risk_level |-> risk_level, posture |-> posture, movement_magnitude |-> 0,
     posture_change_count |-> count]

ImmobilityIdle == [evaluated |-> FALSE, current_time |-> NoneVal, duration |-> NoneVal]

ImmobilityBorn(t) ==
    [born |-> t, evals |-> <<NoneVal, NoneVal>>, emits |-> <<NoneVal, NoneVal>>]

\* ImmobilityAgent.detect on frame f stamped ts; rd[1] is the clock as read
\* when movement is seen, rd[2] the clock as read for the periodic check.
immobility_detect(f, ts, rd) ==
    IF ~immobility_enabled
    THEN /\ immobility_event' = <<>>
         /\ immobility_watch' = ImmobilityIdle
         /\ UNCHANGED <<immobility_enabled, immobility_frame_count, immobility_last_pose,
                        immobility_last_movement_time, immobility_last_check_time,
                        immobility_posture_change_count, immobility_current_posture,
                        immobility_pose_buffer, immobility_log>>
    ELSE
    /\ immobility_frame_count' = immobility_frame_count + 1
    /\ UNCHANGED immobility_enabled
    /\ IF f.det # "pose"
       THEN /\ immobility_event' = <<>>
            /\ immobility_watch' = ImmobilityIdle
            /\ UNCHANGED <<immobility_last_pose, immobility_last_movement_time,
                           immobility_last_check_time, immobility_posture_change_count,
                           immobility_current_posture, immobility_pose_buffer,
                           immobility_log>>
       ELSE
       LET pose == f.pose
           moved == /\ immobility_last_pose # <<>>
                    /\ RatLess(IMMOBILITY_CONFIG.movement_threshold,
                               compute_movement(immobility_last_pose[1], pose))
           last_movement_time == IF moved THEN rd[1] ELSE immobility_last_movement_time
           changed == /\ immobility_last_pose # <<>>
                      /\ determine_posture(pose) # immobility_current_posture
           posture == IF changed THEN determine_posture(pose)
                      ELSE immobility_current_posture
           count == IF changed THEN immobility_posture_change_count + 1
                    ELSE immobility_posture_change_count
           current_time == rd[2]
           due == ImmobilityCheckDue(current_time)
           immobility_duration == current_time - last_movement_time
           risk_level == ImmobilityRiskLevel(immobility_duration)
           emits == due /\ risk_level \in {"MEDIUM", "HIGH"}
       IN  /\ immobility_pose_buffer' =
                  TemporalBuffer_add(immobility_pose_buffer,
                                     [pose |-> pose, timestamp |-> ts],
                                     immobility_buffer_size)
           /\ immobility_last_movement_time' = last_movement_time
           /\ immobility_current_posture' = posture
           /\ immobility_posture_change_count' = count
           /\ immobility_last_pose' = <<pose>>
           /\ immobility_last_check_time' =
                  IF due THEN current_time ELSE immobility_last_check_time
           /\ immobility_watch' =
                  IF due
                  THEN [evaluated |-> TRUE, current_time |-> current_time,
                        duration |-> immobility_duration]
                  ELSE ImmobilityIdle
           /\ immobility_log' =
                  IF due
                  THEN [immobility_log EXCEPT
                            !.evals = <<immobility_log.evals[2], current_time>>,
                            !.emits = IF emits
                                      THEN <<immobility_log.emits[2], current_time>>
                                      ELSE immobility_log.emits]
                  ELSE immobility_log
           /\ immobility_event' =
                  IF emits
                  THEN <<ImmobilityEvent(ts, immobility_duration, last_movement_time,
                                         risk_level, posture, count)>>
                  ELSE <<>>

ImmobilityDetect ==
    /\ focus = "immobility"
    /\ immobility_frame_count < ImmobilityHorizon
    /\ \E f \in NextFrames(ImmobilityScene), rd \in ClockReads(2) :
           /\ ShowFrame(f)
           /\ immobility_detect(f, now, rd)
    /\ \E dt \in ImmobilitySteps : now' = now + dt
    /\ UNCHANGED <<focus, fallVars, seizureVars, bedVars, vitalVars, restVars, orchVars,
                   pipeVars>>

\* A patient who shifts by exactly the movement threshold (0.05, from 50 to
\* 55), by less (55 to 56), by more (50 to 56), or whose key points are
\* hidden; always lying on the side.
MovementScene ==
    {ImmobilityFrame("nopose", NoImmobilityPose),
     ImmobilityFrame("pose", ImmobilityPose(50, TRUE, 80, FALSE)),
     ImmobilityFrame("pose", ImmobilityPose(55, TRUE, 80, FALSE)),
     ImmobilityFrame("pose", ImmobilityPose(56, TRUE, 80, FALSE)),
     ImmobilityFrame("pose", ImmobilityPose(50, FALSE, 80, FALSE))}

MovementSteps == {60, 3600}

\* Whether the scene moved by more than the threshold between two poses:
\* the five key points are shifted together, by hundredths.
SceneMoved(pose1, pose2) ==
    /\ pose1.visible
    /\ pose2.visible
    /\ Abs(pose1.x - pose2.x) * 100 > 100 * 5

\* ImmobilityAgent.detect fed the moving patient; the scene's own record of
\* the poses it showed is kept beside the agent.
MovementDetect ==
    /\ focus = "movement"
    /\ immobility_frame_count < ImmobilityHorizon
    /\ \E f \in NextFrames(MovementScene), rd \in ClockReads(2) :
           /\ ShowFrame(f)
           /\ immobility_detect(f, now, rd)
           /\ movement_watch' =
                  IF f.det # "pose" THEN movement_watch
                  ELSE [shown |-> <<f.pose>>,
                        moved_at |-> IF /\ movement_watch.shown # <<>>
                                        /\ SceneMoved(movement_watch.shown[1], f.pose)
                                     THEN now
                                     ELSE movement_watch.moved_at]
    /\ \E dt \in MovementSteps : now' = now + dt
    /\ UNCHANGED <<focus, fallVars, seizureVars, bedVars, vitalVars, bufferVars,
                   emotionVars, configVars, fall_classified, seizure_analysed,
                   bed_classified, orchVars, pipeVars, webVars, trackVars>>

\* A patient lying still in view, a frame every VigilStep seconds.
StillFrame == ImmobilityFrame("pose", ImmobilityPose(50, TRUE, 80, FALSE))

\* ImmobilityAgent.detect fed that patient.
VigilDetect ==
    /\ focus = "vigil"
    /\ now < StartTime + VigilSpan
    /\ \E rd \in ClockReads(2) :
           /\ ShowFrame(StillFrame)
           /\ immobility_detect(StillFrame, now, rd)
    /\ now' = now + VigilStep
    /\ UNCHANGED <<focus, fallVars, seizureVars, bedVars, vitalVars, restVars, orchVars,
                   pipeVars>>

\* ImmobilityAgent.reset: current_posture is not assigned. The operator
\* resets the agent in answer to an alert.
ImmobilityReset ==
    /\ focus = "immobility"
    /\ env_changes < MaxChanges
    /\ immobility_event # <<>>
    /\ env_changes' = env_changes + 1
    /\ now' = now + 1
    /\ immobility_frame_count' = 0
    /\ immobility_last_pose' = <<>>
    /\ \E rd \in ClockReads(2) :
           /\ immobility_last_movement_time' = rd[1]
           /\ immobility_last_check_time' = rd[2]
    /\ immobility_posture_change_count' = 0
    /\ immobility_pose_buffer' = <<>>
    /\ immobility_event' = <<>>
    /\ immobility_watch' = ImmobilityIdle
    /\ immobility_log' = ImmobilityBorn(now)
    /\ UNCHANGED <<focus, env_last, immobility_enabled, immobility_current_posture,
                   fallVars, seizureVars, bedVars, vitalVars, restVars, orchVars,
                   pipeVars>>

\* The constructor ran during the second before the first frame; its two
\* clock reads are followed only in the run that drives this agent.
InitImmobilityAgent ==
    /\ immobility_enabled = TRUE
    /\ immobility_frame_count = 0
    /\ immobility_last_pose = <<>>
    /\ \E rd \in (IF focus = "immobility" THEN ClockReads(2) ELSE {<<now, now>>}) :
           /\ immobility_last_movement_time = rd[1] - 1
           /\ immobility_last_check_time = rd[2] - 1
    /\ immobility_posture_change_count = 0
    /\ immobility_current_posture = "unknown"
    /\ immobility_pose_buffer = <<>>
    /\ immobility_event = <<>>
    /\ immobility_watch = ImmobilityIdle
    /\ immobility_log = ImmobilityBorn(now - 1)

\* --------------------------------------------------- EmotionDetectionAgent
EMOTION_DETECTION_CONFIG ==
    [emotions |-> {"happy", "sad", "angry", "fear", "disgust", "surprise", "neutral"},
     confidence_threshold |-> Rat(4, 10),
     update_interval |-> 5]

\* A frame as the emotion agent reads it: the detection's face box and the
\* mean brightness of the face crop.
EmotionFrame(det, face_bbox, brightness) ==
    [det |-> det, face_bbox |-> face_bbox, brightness |-> brightness]

EmotionScene ==
    {EmotionFrame("none", NoBox, NoneVal),
     EmotionFrame("noface", NoBox, NoneVal),
     EmotionFrame("face", OffFrameFaceBox, NoneVal),
     EmotionFrame("face", FaceBox, 160),
     EmotionFrame("face", FaceBox, 100)}

\* _classify_emotion: the placeholder maps the crop's brightness
classify_emotion(brightness) ==
    LET emotion == IF brightness > 150 THEN "happy"
                   ELSE IF brightness > 120 THEN "neutral"
                   ELSE IF brightness > 90 THEN "sad"
                   ELSE "angry"
        valence == IF brightness > 150 THEN Rat(8, 10)
                   ELSE IF brightness > 120 THEN Rat(0, 1)
                   ELSE IF brightness > 90 THEN Rat(-6, 10)
                   ELSE Rat(-7, 10)
        arousal == IF brightness > 150 THEN Rat(6, 10)
                   ELSE IF brightness > 120 THEN Rat(0, 1)
                   ELSE IF brightness > 90 THEN Rat(-4, 10)
                   ELSE Rat(7, 10)
    IN  [emotion |-> emotion, confidence |-> Rat(7, 10), valence |-> valence,
         arousal |-> arousal,
         probabilities |-> [e \in EMOTION_DETECTION_CONFIG.emotions |->
                                IF e = emotion THEN Rat(7, 10) ELSE Rat(1, 10)]]

EmotionDetectionEvent(ts, emotion_result, face_bbox) ==
    [event_type |-> "emotion_detection", timestamp |-> ts,
     confidence |-> emotion_result.confidence, agent_name |-> "emotion_detection",
     emotion |-> emotion_result.emotion, valence |-> emotion_result.valence,
     arousal |-> emotion_result.arousal, face_bbox |-> face_bbox,
     emotion_probabilities |-> emotion_result.probabilities]

\* EmotionDetectionAgent.detect on frame f stamped ts
emotion_detect(f, ts) ==
    IF ~emotion_enabled
    THEN /\ emotion_event' = <<>>
         /\ UNCHANGED <<emotion_enabled, emotion_frame_count, emotion_last_emotion,
                        emotion_last_update_frame>>
    ELSE
    /\ emotion_frame_count' = emotion_frame_count + 1
    /\ UNCHANGED emotion_enabled
    /\ LET roi == FaceRoi(f.face_bbox)
       IN
       IF \/ emotion_frame_count' - emotion_last_update_frame
                 < EMOTION_DETECTION_CONFIG.update_interval
          \/ f.det # "face"
          \/ roi.x2 <= roi.x1
          \/ roi.y2 <= roi.y1
       THEN /\ emotion_event' = <<>>
            /\ UNCHANGED <<emotion_last_emotion, emotion_last_update_frame>>
       ELSE
       LET emotion_result == classify_emotion(f.brightness)
       IN  IF RatLess(EMOTION_DETECTION_CONFIG.confidence_threshold,
                      emotion_result.confidence)
           THEN /\ emotion_last_update_frame' = emotion_frame_count'
                /\ emotion_last_emotion' = <<emotion_result.emotion>>
                /\ emotion_event' =
                       <<EmotionDetectionEvent(ts, emotion_result, f.face_bbox)>>
           ELSE /\ emotion_event' = <<>>
                /\ UNCHANGED <<emotion_last_emotion, emotion_last_update_frame>>

EmotionDetect ==
    /\ focus = "emotion"
    /\ now < StartTime + EmotionHorizon
    /\ \E f \in NextFrames(EmotionScene) :
           /\ ShowFrame(f)
           /\ emotion_detect(f, now)
    /\ now' = now + 1
    /\ UNCHANGED <<focus, fallVars, seizureVars, bedVars, vitalVars, immobilityVars,
                   bufferVars, configVars, probeVars, webVars, trackVars,
                   orchVars, pipeVars>>

EmotionReset ==
    /\ focus = "emotion"
    /\ env_changes < MaxChanges
    /\ emotion_frame_count > 0
    /\ env_changes' = env_changes + 1
    /\ emotion_frame_count' = 0
    /\ emotion_last_emotion' = <<>>
    /\ emotion_last_update_frame' = 0
    /\ emotion_event' = <<>>
    /\ UNCHANGED <<now, focus, env_last, emotion_enabled, fallVars, seizureVars, bedVars,
                   vitalVars, immobilityVars, bufferVars, configVars, probeVars, webVars, trackVars,
                   orchVars, pipeVars>>

InitEmotionDetectionAgent ==
    /\ emotion_enabled = TRUE
    /\ emotion_frame_count = 0
    /\ emotion_last_emotion = <<>>
    /\ emotion_last_update_frame = 0
    /\ emotion_event = <<>>

\* ----------------------------------------------------------- configuration
\* Objects built from a configuration the operator passes in, instead of
\* the defaults of config.py.
\* The condition tags _apply_rule has a branch for.
KnownConditions == {"fall_detected", "low_heart_rate", "bed_exit", "nighttime",
                    "immobility_alert", "seizure"}

\* The algorithm names RPPGProcessor documents.
KnownAlgorithms == {"CHROM", "POS", "ICA"}

Rule(name, conditions, level) ==
    [name |-> name, conditions |-> conditions, level |-> level, message |-> name]

\* config["rules"] as an operator may write it: the default, a rule with a
\* misspelt second tag, a rule with an empty tag, a rule with one good tag.
RuleConfigs ==
    {rules,
     <<Rule("critical_fall", <<"fall_detected", "low_hart_rate">>, "CRITICAL")>>,
     <<Rule("fall_only", <<"fall_detected">>, "HIGH"),
       Rule("malformed", <<"", "seizure">>, "CRITICAL")>>}

AlgorithmConfigs == KnownAlgorithms \cup {"GREEN"}

ConfiguredKinds == {FallKind, SeizureKind, VitalKind(72)}

\* Orchestrator.__init__: `self.rules = self.config.get("rules", {})`; no
\* statement of the constructor looks at the rules, and none raises.
OrchestratorConstruct ==
    /\ focus = "config"
    /\ \E rs \in RuleConfigs :
           /\ rs # configured_rules
           /\ configured_rules' = rs
    /\ configured_batch' = <<>>
    /\ configured_alerts' = <<>>
    /\ UNCHANGED <<rppg_algorithm, rppg_ran, agent_config>>
    /\ UNCHANGED <<now, envVars, fallVars, seizureVars, bedVars, vitalVars,
                   immobilityVars, bufferVars, emotionVars, probeVars, webVars, trackVars,
                   orchVars, pipeVars>>

\* The rule loop of process_events on that orchestrator: _apply_rule for
\* each of self.rules, on a batch of events of the current frame.
ConfiguredApplyRules ==
    /\ focus = "config"
    /\ \E b \in Batches(ConfiguredKinds, 2) :
           LET events == [i \in 1..Len(b) |-> MkEvent(b[i], now)]
           IN  /\ configured_batch' = events
               /\ configured_alerts' = RuleCandidates(configured_rules, events,
                                                      scen.hour, now)
    /\ UNCHANGED <<configured_rules, rppg_algorithm, rppg_ran, agent_config>>
    /\ UNCHANGED <<now, envVars, fallVars, seizureVars, bedVars, vitalVars,
                   immobilityVars, bufferVars, emotionVars, probeVars, webVars, trackVars,
                   orchVars, pipeVars>>

\* RPPGProcessor.__init__ (and VitalSignsAgent.__init__, which passes
\* config["algorithm"] on): the name is stored as given.
RPPGConstruct ==
    /\ focus = "config"
    /\ \E a \in AlgorithmConfigs :
           /\ a # rppg_algorithm
           /\ rppg_algorithm' = a
    /\ rppg_ran' = "none"
    /\ UNCHANGED <<configured_rules, configured_batch, configured_alerts, agent_config>>
    /\ UNCHANGED <<now, envVars, fallVars, seizureVars, bedVars, vitalVars,
                   immobilityVars, bufferVars, emotionVars, probeVars, webVars, trackVars,
                   orchVars, pipeVars>>

\* The algorithm branch of RPPGProcessor.process:
\* `if self.algorithm == "CHROM" ... elif self.algorithm == "POS" ... else:  # ICA`
rppg_branch(algorithm) ==
    IF algorithm = "CHROM" THEN "CHROM"
    ELSE IF algorithm = "POS" THEN "POS"
    ELSE "ICA"

\* RPPGProcessor.process on a window that is long enough or not.
RPPGProcess ==
    /\ focus = "config"
    /\ \E enough \in BOOLEAN :
           rppg_ran' = IF enough THEN rppg_branch(rppg_algorithm) ELSE "none"
    /\ rppg_ran' # rppg_ran
    /\ UNCHANGED <<configured_rules, configured_batch, configured_alerts,
                   rppg_algorithm, agent_config>>
    /\ UNCHANGED <<now, envVars, fallVars, seizureVars, bedVars, vitalVars,
                   immobilityVars, bufferVars, emotionVars, probeVars, webVars, trackVars,
                   orchVars, pipeVars>>

\* The configuration each agent is built with by default (config.py), as
\* BaseAgent.__init__ stores it in self.config.
DefaultAgentConfig ==
    [fall |-> [confidence_threshold |-> FALL_DETECTION_CONFIG.confidence_threshold],
     bed_exit |-> [alert_on_states |-> BED_EXIT_CONFIG.alert_on_states],
     immobility |-> [check_interval |-> IMMOBILITY_CONFIG.check_interval]]

\* The values an operator may pass to update_config at run time, per agent
\* and key.
ConfigUpdates(agent) ==
    CASE agent = "fall" ->
             {[confidence_threshold |-> v] : v \in {Rat(1, 2), Rat(99, 100)}}
      [] agent = "bed_exit" -> {[alert_on_states |-> S] : S \in {{"OUT_OF_BED"}, {}}}
      [] agent = "immobility" -> {[check_interval |-> v] : v \in {1800, 3600}}

\* The agent a run's focus drives.
FocusAgent == IF focus = "bed_walk" THEN "bed_exit" ELSE focus

\* BaseAgent.update_config: `self.config.update(config)`.  The thresholds
\* detect reads are the attributes __init__ copied from the configuration;
\* no agent overrides update_config, so they keep their values.
UpdateConfig ==
    /\ FocusAgent \in DOMAIN agent_config
    /\ agent_config[FocusAgent] = DefaultAgentConfig[FocusAgent]
    /\ \E c \in ConfigUpdates(FocusAgent) :
           agent_config' = [agent_config EXCEPT ![FocusAgent] = c]
    /\ UNCHANGED <<configured_rules, configured_batch, configured_alerts,
                   rppg_algorithm, rppg_ran>>
    /\ UNCHANGED <<now, envVars, fallVars, seizureVars, bedVars, vitalVars,
                   immobilityVars, bufferVars, emotionVars, probeVars, webVars, trackVars,
                   orchVars, pipeVars>>

\* A limb group's three keypoints over a window, as _extract_trajectories
\* reads them: in every frame their visibilities (in hundredths) are `base`,
\* except in frame `at`, where they are `odd`.
LimbTrack(base, odd, at) == [base |-> base, odd |-> odd, at |-> at]

TrackWindow(track) ==
    [i \in 1..seizure_buffer_size |-> IF i = track.at THEN track.odd ELSE track.base]

\* `if kp.visibility > 0.5: positions.append([kp.x, kp.y])`
VisibleKeypoints(visibility) == {k \in 1..3 : visibility[k] > 50}

\* _extract_trajectories: for each frame the keypoints whose mean position
\* enters the trajectory; <<>> for None, returned when a frame has no
\* visible keypoint of the limb or the window is shorter than buffer_size.
extract_trajectories(window) ==
    IF \E i \in 1..Len(window) : VisibleKeypoints(window[i]) = {} THEN <<>>
    ELSE IF Len(window) < seizure_buffer_size THEN <<>>
    ELSE [i \in 1..Len(window) |-> VisibleKeypoints(window[i])]

\* The limb's pattern test with `>=` for `>`.
fft_analysis_AtThreshold(spectrum) ==
    [is_seizure_pattern |->
         ~RatLess(spectrum.magnitude, SEIZURE_DETECTION_CONFIG.magnitude_threshold),
     magnitude |-> spectrum.magnitude,
     frequency |-> spectrum.frequency]

\* _fft_analysis from line 213 on: spectrum is the dominant in-band
\* component of the limb's speed, its magnitude normalised by half the
\* signal length (an input); a window of 150 frames always has in-band bins.
fft_analysis(spectrum) ==
    [is_seizure_pattern |->
         RatLess(SEIZURE_DETECTION_CONFIG.magnitude_threshold, spectrum.magnitude),
     magnitude |-> spectrum.magnitude,
     frequency |-> spectrum.frequency]

\* The limbs an analysis is applied to on their own: fully visible, one
\* keypoint occluded in one frame, all three occluded in one frame, all
\* three at visibility 0.5 in one frame; peaks below, at and above 0.3.
ProbeTracks ==
    {LimbTrack(<<90, 90, 90>>, <<90, 90, 90>>, 1),
     LimbTrack(<<90, 90, 90>>, <<40, 90, 90>>, 75),
     LimbTrack(<<90, 90, 90>>, <<40, 40, 40>>, seizure_buffer_size),
     LimbTrack(<<90, 90, 90>>, <<50, 50, 50>>, 1)}

ProbeSpectra ==
    {[magnitude |-> m, frequency |-> 5] :
        m \in {Rat(2, 10), Rat(3, 10), Rat(45, 100), Rat(9, 10)}}

\* The arms take every track and spectrum, the left leg is fully visible and
\* still or shaking, the right leg stays fully visible and still.
ProbeLimbs(l) ==
    IF l <= 2 THEN {[track |-> t, spectrum |-> sp] : t \in ProbeTracks, sp \in ProbeSpectra}
    ELSE IF l = 3
    THEN {[track |-> LimbTrack(<<90, 90, 90>>, <<90, 90, 90>>, 1),
           spectrum |-> [magnitude |-> m, frequency |-> 5]] :
             m \in {Rat(2, 10), Rat(3, 10), Rat(9, 10)}}
    ELSE {}

\* The four limbs before the first analysis: fully visible and still.
QuietLimbs ==
    [l \in 1..Len(limbs) |->
        [track |-> LimbTrack(<<90, 90, 90>>, <<90, 90, 90>>, 1),
         spectrum |-> [magnitude |-> Rat(2, 10), frequency |-> 5]]]

\* What the analysis does with one limb: its trajectories, how many
\* keypoints each frame's mean is over, and the spectrum result that enters
\* the loop (a limb without trajectories is skipped by `continue`).
AnalysedLimb(trajectories, spectrum) ==
    [averaged |-> {Cardinality(trajectories[i]) : i \in 1..Len(trajectories)},
     fft |-> IF trajectories = <<>> THEN Still ELSE fft_analysis(spectrum)]

\* _analyze_limb_movements on a full window.  From one analysis to the next
\* one limb's keypoints and spectrum differ.
SeizureAnalyse ==
    /\ focus = "analyse"
    /\ \E l \in 1..Len(limbs) : \E x \in ProbeLimbs(l) :
           LET before == IF seizure_analysed = <<>>
                         THEN [limbs |-> QuietLimbs,
                               analysed |-> [k \in 1..Len(limbs) |->
                                   AnalysedLimb(
                                       extract_trajectories(TrackWindow(QuietLimbs[k].track)),
                                       QuietLimbs[k].spectrum)]]
                         ELSE seizure_analysed[1]
               analysed == [before.analysed EXCEPT ![l] =
                               AnalysedLimb(extract_trajectories(TrackWindow(x.track)),
                                            x.spectrum)]
           IN  seizure_analysed' =
                   <<[limbs |-> [before.limbs EXCEPT ![l] = x],
                      analysed |-> analysed,
                      result |-> analyze_limb_movements(
                                     [k \in 1..Len(limbs) |-> analysed[k].fft])]>>
    /\ seizure_analysed' # seizure_analysed
    /\ UNCHANGED <<now, envVars, fallVars, seizureVars, bedVars, vitalVars,
                   immobilityVars, bufferVars, emotionVars, configVars,
                   fall_classified, bed_classified, movement_watch, orchVars, pipeVars, webVars, trackVars>>

\* The frames the state classification is applied to on their own: hip
\* heights around 0.3 (row 504) and 0.6 (row 288), torso angles around 30 and
\* 45 degrees, and boxes whose IoU with the bed region is 1, exactly 0.3,
\* just below 0.3, and 0.
BedProbePoses ==
    {[hip_y |-> y, angle |-> a] :
        y \in {216, 287, 288, 503, 504, 576}, a \in {10, 29, 30, 45, 46, 80}}

BedProbeBoxes ==
    {BedBox, [x1 |-> 30, y1 |-> 40, x2 |-> 48, y2 |-> 65],
     [x1 |-> 30, y1 |-> 40, x2 |-> 47, y2 |-> 65], AwayBox}

\* Lines 72-75 and 100 of detect on an agent whose bed region is BedBox:
\* the frame is classified and the result becomes the stored state.
BedClassify ==
    /\ focus = "bed_state"
    /\ \E pose \in BedProbePoses, bbox \in BedProbeBoxes :
           bed_classified' =
               <<[previous |-> IF bed_classified = <<>> THEN "IN_BED"
                               ELSE bed_classified[1].state,
                  pose |-> pose,
                  bbox |-> bbox,
                  state |-> determine_state(bbox, pose, frame_height,
                                            <<ConfiguredBedRegion>>)]>>
    /\ bed_classified' # bed_classified
    /\ UNCHANGED <<now, envVars, fallVars, seizureVars, bedVars, vitalVars,
                   immobilityVars, bufferVars, emotionVars, configVars,
                   fall_classified, seizure_analysed, movement_watch, orchVars, pipeVars, webVars, trackVars>>

InitProbes ==
    /\ fall_classified = <<>>
    /\ seizure_analysed = <<>>
    /\ bed_classified = <<>>
    /\ movement_watch = [shown |-> <<>>, moved_at |-> NoneVal]

InitConfigured ==
    /\ configured_rules = rules
    /\ configured_batch = <<>>
    /\ configured_alerts = <<>>
    /\ rppg_algorithm = "CHROM"
    /\ rppg_ran = "none"
    /\ agent_config = DefaultAgentConfig

\* ---------------------------------------------------------- PersonTracker
TRACKING_CONFIG == [max_age |-> 30, iou_threshold |-> Rat(3, 10)]

\* PersonTracker._compute_iou
PersonTracker_compute_iou(bbox1, bbox2) ==
    LET x1 == Max(bbox1.x1, bbox2.x1)
        y1 == Max(bbox1.y1, bbox2.y1)
        x2 == Min(bbox1.x2, bbox2.x2)
        y2 == Min(bbox1.y2, bbox2.y2)
        intersection == Max(0, x2 - x1) * Max(0, y2 - y1)
        area1 == (bbox1.x2 - bbox1.x1) * (bbox1.y2 - bbox1.y1)
        area2 == (bbox2.x2 - bbox2.x1) * (bbox2.y2 - bbox2.y1)
        union == area1 + area2 - intersection
    IN  IF union > 0 THEN Rat(intersection, union) ELSE Rat(0, 1)

\* The boxes a detector reports: a person, the same person half a box
\* further (IoU 1/2 with the first), and a second person elsewhere.
HalfBox == [x1 |-> 30, y1 |-> 40, x2 |-> 60, y2 |-> 65]
TrackBoxes == {BedBox, HalfBox, AwayBox}
DetectionLists == UNION {[1..n -> TrackBoxes] : n \in 0..MaxDetections}

RECURSIVE BestTrack(_, _, _, _, _)
\* lines 134-141: the scan of self.tracks from entry i on; NoneVal for None
BestTrack(det, tracks, i, best_iou, best_track_id) ==
    IF i > Len(tracks) THEN best_track_id
    ELSE LET iou == PersonTracker_compute_iou(det, tracks[i].bbox)
         IN  IF RatLess(best_iou, iou) /\ RatLess(TRACKING_CONFIG.iou_threshold, iou)
             THEN BestTrack(det, tracks, i + 1, iou, tracks[i].track_id)
             ELSE BestTrack(det, tracks, i + 1, best_iou, best_track_id)

\* d[key] = value on a dict kept as a sequence in insertion order
DictSet(d, key, value) ==
    IF \E i \in 1..Len(d) : d[i].track_id = key
    THEN [i \in 1..Len(d) |-> IF d[i].track_id = key
                              THEN [track_id |-> key, bbox |-> value] ELSE d[i]]
    ELSE Append(d, [track_id |-> key, bbox |-> value])

RECURSIVE MatchDetections(_, _, _, _)
\* lines 130-147: matched_tracks and unmatched_detections after the loop
\* over the detections from the i-th on
MatchDetections(detections, tracks, i, acc) ==
    IF i > Len(detections) THEN acc
    ELSE LET best_track_id == BestTrack(detections[i], tracks, 1, Rat(0, 1), NoneVal)
         IN  MatchDetections(detections, tracks, i + 1,
                 IF best_track_id # NoneVal
                 THEN [acc EXCEPT !.matched_tracks = DictSet(@, best_track_id, detections[i])]
                 ELSE [acc EXCEPT !.unmatched_detections = Append(@, detections[i])])

\* PersonTracker._update_simple: the objects returned, the tracks kept and
\* the next ID
update_simple(detections, tracks, next_id, max_age) ==
    LET m == MatchDetections(detections, tracks, 1,
                             [matched_tracks |-> <<>>, unmatched_detections |-> <<>>])
        Matched(id) == \E j \in 1..Len(m.matched_tracks) : m.matched_tracks[j].track_id = id
        MatchedBox(id) ==
            (CHOOSE j \in 1..Len(m.matched_tracks) : m.matched_tracks[j].track_id = id)
        \* lines 150-156: matched tracks take the detection's box, age 0
        updated == [i \in 1..Len(tracks) |->
                       IF Matched(tracks[i].track_id)
                       THEN [track_id |-> tracks[i].track_id,
                             bbox |-> m.matched_tracks[MatchedBox(tracks[i].track_id)].bbox,
                             age |-> 0]
                       ELSE tracks[i]]
        \* lines 159-168: a new track per unmatched detection
        fresh == [k \in 1..Len(m.unmatched_detections) |->
                     [track_id |-> next_id + k - 1, bbox |-> m.unmatched_detections[k]]]
        created == updated \o [k \in 1..Len(fresh) |->
                                  [track_id |-> fresh[k].track_id, bbox |-> fresh[k].bbox,
                                   age |-> 0]]
        \* lines 171-180: every track not matched ages, and goes past max_age
        aged == [i \in 1..Len(created) |->
                    IF Matched(created[i].track_id) THEN created[i]
                    ELSE [created[i] EXCEPT !.age = @ + 1]]
    IN  [tracked_objects |-> m.matched_tracks \o fresh,
         tracks |-> SelectSeq(aged, LAMBDA t : ~(t.age > max_age)),
         next_id |-> next_id + Len(fresh),
         issued |-> [k \in 1..Len(fresh) |-> fresh[k].track_id]]

\* PersonTracker.update on a tracker without DeepSORT
TrackerUpdate ==
    /\ focus = "tracker"
    /\ track_updates < MaxUpdates
    /\ \E detections \in DetectionLists :
           LET u == update_simple(detections, track_tracks, track_next_id, track_max_age)
           IN  /\ track_input' = detections
               /\ track_returned' = u.tracked_objects
               /\ track_tracks' = u.tracks
               /\ track_next_id' = u.next_id
               /\ track_issued' = track_issued \o u.issued
    /\ track_updates' = track_updates + 1
    /\ UNCHANGED track_max_age
    /\ UNCHANGED <<now, envVars, fallVars, seizureVars, bedVars, vitalVars,
                   immobilityVars, bufferVars, emotionVars, configVars, probeVars,
                   webVars, orchVars, pipeVars>>

\* PersonTracker.reset, self.tracker being None
TrackerReset ==
    /\ focus = "tracker"
    /\ track_next_id > 0
    /\ track_next_id' = 0
    /\ track_tracks' = <<>>
    /\ track_input' = <<>>
    /\ track_returned' = <<>>
    /\ track_issued' = <<>>
    /\ UNCHANGED <<track_max_age, track_updates>>
    /\ UNCHANGED <<now, envVars, fallVars, seizureVars, bedVars, vitalVars,
                   immobilityVars, bufferVars, emotionVars, configVars, probeVars,
                   webVars, orchVars, pipeVars>>

\* A tracker built from TRACKING_CONFIG, or from a configuration that drops
\* a track after one frame without a match.
InitTracker ==
    /\ track_max_age \in (IF focus = "tracker" THEN {1, TRACKING_CONFIG.max_age}
                          ELSE {TRACKING_CONFIG.max_age})
    /\ track_next_id = 0
    /\ track_tracks = <<>>
    /\ track_input = <<>>
    /\ track_returned = <<>>
    /\ track_issued = <<>>
    /\ track_updates = 0

\* --------------------------------------------------- enabling and disabling
SwitchedAgents == {"fall", "bed_exit", "immobility"}

EnabledOf(agent) ==
    CASE agent = "fall" -> fall_enabled
      [] agent = "bed_exit" -> bed_enabled
      [] agent = "immobility" -> immobility_enabled

\* The agents' variables apart from their enabled flags.
switchRestVars ==
    <<fall_frame_count, fall_pose_buffer, fall_last_event_time, fall_event,
      fall_emit_log, fall_fed,
      bed_frame_count, bed_region, bed_current_state, bed_state_start_time,
      bed_last_transition_time, bed_calibration_frames, bed_calibration_bboxes,
      bed_event, bed_watch, bed_walk,
      immobility_frame_count, immobility_last_pose, immobility_last_movement_time,
      immobility_last_check_time, immobility_posture_change_count,
      immobility_current_posture, immobility_pose_buffer, immobility_event,
      immobility_watch, immobility_log,
      now, envVars, seizureVars, vitalVars, restVars, orchVars, pipeVars>>

SetEnabled(agent, value) ==
    /\ fall_enabled' = IF agent = "fall" THEN value ELSE fall_enabled
    /\ bed_enabled' = IF agent = "bed_exit" THEN value ELSE bed_enabled
    /\ immobility_enabled' = IF agent = "immobility" THEN value ELSE immobility_enabled

\* BaseAgent.disable with a side effect: the frame counter is cleared too.
AgentDisable_ClearsCounter ==
    /\ focus \in SwitchedAgents
    /\ EnabledOf(focus)
    /\ SetEnabled(focus, FALSE)
    /\ fall_frame_count' = 0
    /\ bed_frame_count' = 0
    /\ immobility_frame_count' = 0
    /\ UNCHANGED <<fall_pose_buffer, fall_last_event_time, fall_event,
                   fall_emit_log, fall_fed,
                   bed_region, bed_current_state, bed_state_start_time,
                   bed_last_transition_time, bed_calibration_frames,
                   bed_calibration_bboxes, bed_event, bed_watch, bed_walk,
                   immobility_last_pose, immobility_last_movement_time,
                   immobility_last_check_time, immobility_posture_change_count,
                   immobility_current_posture, immobility_pose_buffer,
                   immobility_event, immobility_watch, immobility_log,
                   now, envVars, seizureVars, vitalVars, restVars, orchVars, pipeVars>>

\* BaseAgent.disable
AgentDisable ==
    /\ focus \in SwitchedAgents
    /\ EnabledOf(focus)
    /\ SetEnabled(focus, FALSE)
    /\ UNCHANGED switchRestVars

\* BaseAgent.enable
AgentEnable ==
    /\ focus \in SwitchedAgents
    /\ ~EnabledOf(focus)
    /\ SetEnabled(focus, TRUE)
    /\ UNCHANGED switchRestVars

\* detect called on an agent that the operator switches on and off; the
\* calls go on while it is off, for SwitchSpan frames (fall, bed exit) or
\* SwitchSpan half-hours, at least half an hour apart (immobility).
SwitchedFallDetect ==
    /\ now < StartTime + SwitchSpan
    /\ FallDetect

SwitchedBedDetect ==
    /\ now < StartTime + SwitchSpan
    /\ BedDetect

SwitchedImmobilityDetect ==
    /\ now < StartTime + SwitchSpan * 1800
    /\ ImmobilityDetect
    /\ now' - now >= 1800

\* ------------------------------------------------------------- web server
\* Flask serves every request on a thread of its own (async_mode
\* 'threading'); the handlers and the monitoring threads share the globals
\* without a lock, so their statements interleave.
SetPc(threads, i, pc) == [threads EXCEPT ![i].pc = pc]

\* what the web server's handlers and threads leave alone in this model
offWebVars == <<now, envVars, fallVars, seizureVars, bedVars, vitalVars,
                immobilityVars, bufferVars, emotionVars, configVars, probeVars,
                trackVars, orchVars, pipeVars>>

\* start_monitoring, up to its test of monitoring_active: a request that
\* finds monitoring active is answered 400.
ApiStart ==
    /\ focus = "web"
    /\ Len(web_requests) < MaxRequests
    /\ web_requests' =
           Append(web_requests,
                  [kind |-> "start",
                   pc |-> IF monitoring_active THEN "done" ELSE "initialize"])
    /\ UNCHANGED <<monitoring_active, web_pipeline, web_loops>>
    /\ UNCHANGED offWebVars

\* monitoring_system.initialize: a new VideoPipeline replaces the old one
\* and its capture is opened; the request is answered 400 if that fails.
StartInitialize ==
    /\ focus = "web"
    /\ \E r \in 1..Len(web_requests), opened \in BOOLEAN :
           /\ web_requests[r].pc = "initialize"
           /\ web_pipeline' = [serial |-> web_pipeline.serial + 1, open |-> opened]
           /\ web_requests' = SetPc(web_requests, r, IF opened THEN "activate" ELSE "done")
    /\ UNCHANGED <<monitoring_active, web_loops>>
    /\ UNCHANGED offWebVars

\* monitoring_active = True
StartActivate ==
    /\ focus = "web"
    /\ \E r \in 1..Len(web_requests) :
           /\ web_requests[r].pc = "activate"
           /\ web_requests' = SetPc(web_requests, r, "spawn")
    /\ monitoring_active' = TRUE
    /\ UNCHANGED <<web_pipeline, web_loops>>
    /\ UNCHANGED offWebVars

\* monitoring_thread = threading.Thread(target=monitoring_loop); start()
StartSpawn ==
    /\ focus = "web"
    /\ \E r \in 1..Len(web_requests) :
           /\ web_requests[r].pc = "spawn"
           /\ web_requests' = SetPc(web_requests, r, "done")
    /\ web_loops' = Append(web_loops, [pc |-> "test", frames |-> 0])
    /\ UNCHANGED <<monitoring_active, web_pipeline>>
    /\ UNCHANGED offWebVars

\* stop_monitoring, first statement: monitoring_active = False
ApiStop ==
    /\ focus = "web"
    /\ Len(web_requests) < MaxRequests
    /\ web_requests' = Append(web_requests, [kind |-> "stop", pc |-> "release"])
    /\ monitoring_active' = FALSE
    /\ UNCHANGED <<web_pipeline, web_loops>>
    /\ UNCHANGED offWebVars

\* monitoring_system.stop(): the current pipeline's capture is released
StopRelease ==
    /\ focus = "web"
    /\ \E r \in 1..Len(web_requests) :
           /\ web_requests[r].pc = "release"
           /\ web_requests' = SetPc(web_requests, r, "done")
    /\ web_pipeline' = [web_pipeline EXCEPT !.open = FALSE]
    /\ UNCHANGED <<monitoring_active, web_loops>>
    /\ UNCHANGED offWebVars

\* monitoring_loop: `while monitoring_active`
LoopTest ==
    /\ focus = "web"
    /\ \E l \in 1..Len(web_loops) :
           /\ web_loops[l].pc = "test"
           /\ web_loops' = SetPc(web_loops, l, IF monitoring_active THEN "frame" ELSE "exited")
    /\ UNCHANGED <<monitoring_active, web_pipeline, web_requests>>
    /\ UNCHANGED offWebVars

\* monitoring_loop, the body: process_frame reads from the pipeline that
\* monitoring_system holds at that moment; without a frame (capture
\* released, or end of the video) the loop clears monitoring_active and ends.
LoopFrame ==
    /\ focus = "web"
    /\ \E l \in 1..Len(web_loops), frame \in BOOLEAN :
           /\ web_loops[l].pc = "frame"
           /\ frame => web_pipeline.open
           /\ IF frame
              THEN /\ web_loops' = [web_loops EXCEPT ![l].pc = "test", ![l].frames = 1]
                   /\ UNCHANGED monitoring_active
              ELSE /\ web_loops' = SetPc(web_loops, l, "exited")
                   /\ monitoring_active' = FALSE
    /\ UNCHANGED <<web_pipeline, web_requests>>
    /\ UNCHANGED offWebVars

InitWeb ==
    /\ monitoring_active = FALSE
    /\ web_pipeline = [serial |-> 0, open |-> FALSE]
    /\ web_requests = <<>>
    /\ web_loops = <<>>

\* ----------------------------------------------------------------- agents
Scene(agent) ==
    CASE agent = "fall" -> FallScene
      [] agent = "seizure" -> SeizureScene
      [] agent = "bed_exit" -> CalibrationScene
      [] agent = "bed_walk" -> {NoDetection}
      [] agent = "vital_signs" -> VitalScene
      [] agent = "immobility" -> ImmobilityScene
      [] agent = "movement" -> MovementScene
      [] agent = "vigil" -> {StillFrame}
      [] agent = "faint" -> {Frame("pose", Upright, PersonBox)}
      [] agent = "emotion" -> EmotionScene
      [] OTHER -> {NoDetection}

InitAgents(foci) ==
    /\ focus \in foci
    /\ env_last \in Scene(focus)
    /\ env_changes = 0
    /\ InitFallAgent
    /\ InitSeizureAgent
    /\ InitBedExitAgent
    /\ InitVitalSignsAgent
    /\ InitImmobilityAgent
    /\ InitTemporalBuffer
    /\ InitEmotionDetectionAgent
    /\ InitConfigured
    /\ InitProbes
    /\ InitWeb
    /\ InitTracker

\* ---------------------------------------------------------- specifications
DefaultScenario == CHOOSE sc \in Scenarios : sc.lag = 1

\* The orchestrator under arbitrary callers.
Init ==
    /\ now = StartTime
    /\ InitOrch(Scenarios)
    /\ InitPipe({"cli"})
    /\ InitAgents({"none"})
Next == ProcessEvents \/ OrchReset \/ Tick
Spec == Init /\ [][Next]_vars

\* The frame loop of either front end.
InitPipeline ==
    /\ now = StartTime
    /\ InitOrch(Scenarios)
    /\ InitPipe({"cli", "web"})
    /\ InitAgents({"none"})
NextPipeline == FrameProcessed \/ FrameRaises \/ EndOfStream
SpecPipeline == InitPipeline /\ [][NextPipeline]_vars

\* One fall agent fed a camera scene.
InitFall ==
    /\ now = StartTime
    /\ InitOrch({DefaultScenario})
    /\ InitPipe({"cli"})
    /\ InitAgents({"fall"})
NextFall == FallDetect \/ FallReset
SpecFall == InitFall /\ [][NextFall]_vars

\* One seizure agent fed a camera scene.
InitSeizure ==
    /\ now = StartTime
    /\ InitOrch({DefaultScenario})
    /\ InitPipe({"cli"})
    /\ InitAgents({"seizure"})
NextSeizure == SeizureDetect \/ SeizureReset
SpecSeizure == InitSeizure /\ [][NextSeizure]_vars

\* The two agents that enforce a cooldown, each fed a camera scene.
InitCooldown ==
    /\ now = StartTime
    /\ InitOrch({DefaultScenario})
    /\ InitPipe({"cli"})
    /\ InitAgents({"fall", "seizure"})
NextCooldown == FallDetect \/ FallReset \/ SeizureDetect \/ SeizureReset
SpecCooldown == InitCooldown /\ [][NextCooldown]_vars

\* One bed-exit agent fed a camera scene.
InitBedExit ==
    /\ now = StartTime
    /\ InitOrch({DefaultScenario})
    /\ InitPipe({"cli"})
    /\ InitAgents({"bed_exit"})
NextBedExit == BedDetect \/ BedReset
SpecBedExit == InitBedExit /\ [][NextBedExit]_vars

\* One bed-exit agent with a configured bed region, fed a patient getting up.
InitBedWalk ==
    /\ now = StartTime
    /\ InitOrch({DefaultScenario})
    /\ InitPipe({"cli"})
    /\ InitAgents({"bed_walk"})
NextBedWalk == BedWalkDetect
SpecBedWalk == InitBedWalk /\ [][NextBedWalk]_vars

\* One vital-signs agent fed a camera scene.
InitVital ==
    /\ now = StartTime
    /\ InitOrch({DefaultScenario})
    /\ InitPipe({"cli"})
    /\ InitAgents({"vital_signs"})
NextVital == VitalDetect \/ VitalReset
SpecVital == InitVital /\ [][NextVital]_vars

\* The immobility agent fed frames that may be minutes or hours apart.
InitImmobility ==
    /\ now = StartTime
    /\ InitOrch({DefaultScenario})
    /\ InitPipe({"cli"})
    /\ InitAgents({"immobility"})
NextImmobility == ImmobilityDetect \/ ImmobilityReset
SpecImmobility == InitImmobility /\ [][NextImmobility]_vars

\* Every agent in turn, fed a camera scene and reset by the operator.
InitReset ==
    /\ now = StartTime
    /\ InitOrch({DefaultScenario})
    /\ InitPipe({"cli"})
    /\ InitAgents({"fall", "seizure", "vital_signs", "bed_exit", "immobility", "emotion"})
NextReset ==
    \/ FallDetect
    \/ FallReset
    \/ SeizureDetect
    \/ SeizureReset
    \/ VitalDetect
    \/ VitalReset
    \/ BedDetect
    \/ BedReset
    \/ ImmobilityDetect
    \/ ImmobilityReset
    \/ EmotionDetect
    \/ EmotionReset
SpecReset == InitReset /\ [][NextReset]_vars

\* Every agent in turn, fed a camera scene until shortly after its window
\* has filled (its calibration has ended, its update interval has passed).
FallDetectWarm ==
    /\ fall_frame_count < FALL_DETECTION_CONFIG.sequence_length + WarmSlack
    /\ FallDetect
SeizureDetectWarm ==
    /\ seizure_frame_count < seizure_buffer_size + WarmSlack
    /\ SeizureDetect
VitalDetectWarm ==
    /\ vital_frame_count < VITAL_SIGNS_CONFIG.window_size + WarmSlack
    /\ VitalDetect
BedDetectWarm ==
    /\ bed_frame_count < calibration_frames_needed + WarmSlack
    /\ BedDetect
ImmobilityDetectWarm ==
    /\ immobility_frame_count < WarmSlack
    /\ ImmobilityDetect
EmotionDetectWarm ==
    /\ emotion_frame_count < EMOTION_DETECTION_CONFIG.update_interval + WarmSlack
    /\ EmotionDetect
InitWarm ==
    /\ now = StartTime
    /\ InitOrch({DefaultScenario})
    /\ InitPipe({"cli"})
    /\ InitAgents({"fall", "seizure", "vital_signs", "bed_exit", "immobility", "emotion"})
NextWarm ==
    \/ FallDetectWarm
    \/ SeizureDetectWarm
    \/ VitalDetectWarm
    \/ BedDetectWarm
    \/ ImmobilityDetectWarm
    \/ EmotionDetectWarm
SpecWarm == InitWarm /\ [][NextWarm]_vars

\* The two agents that analyse a window of timestamped poses, fed a camera
\* scene by a perception layer that may repeat or reorder a frame.
InitTimestamps ==
    /\ now = StartTime
    /\ InitOrch({DefaultScenario})
    /\ InitPipe({"cli"})
    /\ InitAgents({"fall", "seizure"})
NextTimestamps ==
    \/ FallDetect
    \/ FallDetectStale
    \/ SeizureDetect
    \/ SeizureDetectStale
SpecTimestamps == InitTimestamps /\ [][NextTimestamps]_vars

\* Objects built from an operator's configuration and then used.
InitConfig ==
    /\ now = StartTime
    /\ InitOrch(Scenarios)
    /\ InitPipe({"cli"})
    /\ InitAgents({"config"})
NextConfig == OrchestratorConstruct \/ ConfiguredApplyRules \/ RPPGConstruct \/ RPPGProcess
SpecConfig == InitConfig /\ [][NextConfig]_vars

\* Agents whose configuration the operator updates while they run.
InitUpdate ==
    /\ now = StartTime
    /\ InitOrch({DefaultScenario})
    /\ InitPipe({"cli"})
    /\ InitAgents({"fall", "bed_walk", "immobility"})
NextUpdate == FallDetect \/ BedWalkDetect \/ ImmobilityDetect \/ UpdateConfig
SpecUpdate == InitUpdate /\ [][NextUpdate]_vars

\* The fall classification applied to measurements around its thresholds.
InitClassify ==
    /\ now = StartTime
    /\ InitOrch({DefaultScenario})
    /\ InitPipe({"cli"})
    /\ InitAgents({"classify"})
NextClassify == FallEvaluate
SpecClassify == InitClassify /\ [][NextClassify]_vars

\* The seizure analysis applied to limbs of every visibility and magnitude.
InitAnalyse ==
    /\ now = StartTime
    /\ InitOrch({DefaultScenario})
    /\ InitPipe({"cli"})
    /\ InitAgents({"analyse"})
NextAnalyse == SeizureAnalyse
SpecAnalyse == InitAnalyse /\ [][NextAnalyse]_vars

\* The bed-exit state classification applied to frames around its thresholds.
InitBedState ==
    /\ now = StartTime
    /\ InitOrch({DefaultScenario})
    /\ InitPipe({"cli"})
    /\ InitAgents({"bed_state"})
NextBedState == BedClassify
SpecBedState == InitBedState /\ [][NextBedState]_vars

\* The immobility agent watching a patient who shifts around the movement
\* threshold.
InitMovement ==
    /\ now = StartTime
    /\ InitOrch({DefaultScenario})
    /\ InitPipe({"cli"})
    /\ InitAgents({"movement"})
NextMovement == MovementDetect
SpecMovement == InitMovement /\ [][NextMovement]_vars

\* The orchestrator in the evening scenarios, whose batches carry vital-signs
\* and emotion events beside a fall or a bed exit.
EveningScenarios == {sc \in Scenarios : sc.hour >= 21}
InitEvening ==
    /\ now = StartTime
    /\ InitOrch(EveningScenarios)
    /\ InitPipe({"cli"})
    /\ InitAgents({"none"})
NextEvening == ProcessEvents \/ OrchReset \/ Tick
SpecEvening == InitEvening /\ [][NextEvening]_vars

\* The web server under concurrent /api/start and /api/stop requests.
InitServer ==
    /\ now = StartTime
    /\ InitOrch({DefaultScenario})
    /\ InitPipe({"cli"})
    /\ InitAgents({"web"})
NextServer ==
    \/ ApiStart
    \/ StartInitialize
    \/ StartActivate
    \/ StartSpawn
    \/ ApiStop
    \/ StopRelease
    \/ LoopTest
    \/ LoopFrame
SpecServer == InitServer /\ [][NextServer]_vars

\* The fall, bed-exit and immobility agents, each switched on and off and
\* reset while frames keep arriving.
InitSwitch ==
    /\ now = StartTime
    /\ InitOrch({DefaultScenario})
    /\ InitPipe({"cli"})
    /\ InitAgents(SwitchedAgents)
NextSwitch ==
    \/ SwitchedFallDetect
    \/ SwitchedBedDetect
    \/ SwitchedImmobilityDetect
    \/ AgentEnable
    \/ AgentDisable
    \/ FallReset
    \/ BedReset
    \/ ImmobilityReset
SpecSwitch == InitSwitch /\ [][NextSwitch]_vars

\* The seizure agent watching a patient whose tremor is faint.
InitFaint ==
    /\ now = StartTime
    /\ InitOrch({DefaultScenario})
    /\ InitPipe({"cli"})
    /\ InitAgents({"faint"})
NextFaint == SeizureDetectFaint
SpecFaint == InitFaint /\ [][NextFaint]_vars

\* The orchestrator fed, ticked and reset in one scenario.
InitBacklog ==
    /\ now = StartTime
    /\ InitOrch({DefaultScenario})
    /\ InitPipe({"cli"})
    /\ InitAgents({"none"})
NextBacklog == ProcessEvents \/ OrchReset \/ Tick
SpecBacklog == InitBacklog /\ [][NextBacklog]_vars

\* The IoU tracker fed detection lists and reset.
InitTracking ==
    /\ now = StartTime
    /\ InitOrch({DefaultScenario})
    /\ InitPipe({"cli"})
    /\ InitAgents({"tracker"})
NextTracking == TrackerUpdate \/ TrackerReset
SpecTracking == InitTracking /\ [][NextTracking]_vars

\* The immobility agent watching a motionless patient; the monitoring loop
\* keeps calling detect as long as frames arrive.
InitVigil ==
    /\ now = StartTime
    /\ InitOrch({DefaultScenario})
    /\ InitPipe({"cli"})
    /\ InitAgents({"vigil"})
NextVigil == VigilDetect
SpecVigil == InitVigil /\ [][NextVigil]_vars
SpecVigilFair == SpecVigil /\ WF_vars(VigilDetect)

\* A TemporalBuffer under arbitrary callers.
InitBuffer ==
    /\ now = StartTime
    /\ InitOrch({DefaultScenario})
    /\ InitPipe({"cli"})
    /\ InitAgents({"buffer"})
NextBuffer ==
    \/ BufferAdd
    \/ BufferGetLatest
    \/ BufferGetOldest
    \/ BufferGetAll
    \/ BufferGetWindow
    \/ BufferIsFull
    \/ BufferLen
    \/ BufferClear
SpecBuffer == InitBuffer /\ [][NextBuffer]_vars

\* ===================================================== orchestrator claims
Range(seq) == {seq[i] : i \in 1..Len(seq)}

RuleNamed(name) == CHOOSE r \in Range(rules) : r.name = name

\* What a condition tag asks of a batch, stated without the loop.
ConditionSatisfied(condition, events, hour) ==
    CASE condition = "fall_detected" -> \E e \in Range(events) : e.event_type = "fall_detection"
      [] condition = "low_heart_rate" ->
            \E e \in Range(events) : e.event_type = "vital_signs" /\ e.heart_rate # NoneVal /\ e.heart_rate < 50
      [] condition = "bed_exit" -> \E e \in Range(events) : e.event_type = "bed_exit"
      [] condition = "nighttime" -> hour >= 22 \/ hour < 6
      [] condition = "immobility_alert" -> \E e \in Range(events) : e.event_type = "immobility"
      [] condition = "seizure" -> \E e \in Range(events) : e.event_type = "seizure_detection"
      [] OTHER -> FALSE

\* Does this event, by itself, satisfy this condition tag?
EventSatisfies(condition, e) ==
    CASE condition = "fall_detected" -> e.event_type = "fall_detection"
      [] condition = "low_heart_rate" ->
            e.event_type = "vital_signs" /\ e.heart_rate # NoneVal /\ e.heart_rate < 50
      [] condition = "bed_exit" -> e.event_type = "bed_exit"
      [] condition = "immobility_alert" -> e.event_type = "immobility"
      [] condition = "seizure" -> e.event_type = "seizure_detection"
      [] OTHER -> FALSE

BuiltAlerts == {orch_candidates[j].alert : j \in 1..Len(orch_candidates)}
RuleAlerts == {a \in BuiltAlerts : a.metadata.key = "rule"}

\* C1: process_events never silently drops an event: every event of the
\* batch is contained in an alert that was returned for the tick or was
\* suppressed only by deduplication.
C1_NoEventDropped ==
    \A e \in Range(orch_batch) : \E a \in BuiltAlerts : e \in Range(a.events)

\* C2: a rule produces an alert in a tick only if every one of its
\* conditions is satisfied by the batch (and by the clock, for nighttime).
C2_RuleFiresOnlyIfAllConditionsHold ==
    \A a \in RuleAlerts :
        \A c \in Range(RuleNamed(a.metadata.value).conditions) :
            ConditionSatisfied(c, orch_batch, scen.hour)

\* C2 witness: the critical_fall rule fired on a batch with a fall and a
\* vital-signs event below 50, and was returned.
C2_Witness ==
    \E i \in 1..Len(orch_returned) :
        /\ orch_returned[i].metadata = [key |-> "rule", value |-> "critical_fall"]
        /\ \E e \in Range(orch_batch) : e.event_type = "fall_detection"

\* C4: a candidate alert is discarded exactly when an alert with the same
\* message was recorded into history less than deduplication_window
\* seconds of wall-clock time before the current time.
C4_DiscardedIffRecordedWithinWindow ==
    \A j \in 1..Len(orch_candidates) :
        orch_candidates[j].discarded = orch_candidates[j].recorded_recently

\* C5: after every process_events call, also one with an empty batch, the
\* history holds no alert 2 x deduplication_window or more old.
C5_HistoryCompactedEveryTick ==
    orch_fresh =>
        \A i \in 1..Len(recent_alerts) :
            now - recent_alerts[i].timestamp < 2 * deduplication_window

\* C6: a fired rule produces exactly one alert; it holds every event of the
\* batch that satisfied at least one of the rule's conditions, and carries
\* the rule's level and message and metadata naming the rule.
C6_RuleAlertBundlesEveryMatchingEvent ==
    /\ \A a, b \in RuleAlerts : a.metadata.value = b.metadata.value => a = b
    /\ \A a \in RuleAlerts :
        LET r == RuleNamed(a.metadata.value)
        IN  /\ a.level = r.level
            /\ a.message = Msg(r.message, "", NoneVal, NoneVal)
            /\ \A e \in Range(orch_batch) :
                   (\E c \in Range(r.conditions) : EventSatisfies(c, e))
                       => e \in Range(a.events)

\* ========================================================= pipeline claims
\* C3: an exception raised inside one agent's detect does not halt the
\* pipeline: the remaining agents still run, the orchestrator still
\* processes the frame's events, and the loop goes on to the next frame.
C3_AgentExceptionDoesNotHaltPipeline ==
    pipe_raised # "none" =>
        /\ pipe_running
        /\ pipe_ran = agents
        /\ pipe_orchestrated

\* ============================================================ agent claims
\* The gaps between consecutive entries of an emission log.
Gaps(log) == {log[i + 1] - log[i] : i \in 1..(Len(log) - 1)}

\* C7: two events emitted by the same fall agent with no reset in between
\* are at least 3 s of wall-clock time apart, and two events of the same
\* seizure agent at least 10 s, whatever the frames in between show.
\* An emission's wall-clock time is the clock read the agent stores in
\* last_event_time; the event's own timestamp is the frame's, taken earlier.
C7_EmissionsAtLeastCooldownApart ==
    /\ \A g \in Gaps(fall_emit_log) : g >= fall_event_cooldown
    /\ \A g \in Gaps(seizure_emit_log) : g >= seizure_event_cooldown

\* C7 witness: the fall agent has emitted twice while the scene showed the
\* lying pose on every frame.
C7_Witness ==
    /\ Len(fall_emit_log) >= 2
    /\ env_changes = 0
    /\ env_last = Frame("pose", ReferenceLying, PersonBox)

\* C8: fed only the pose with hip height 0.1 and torso angle 80 degrees, a
\* fresh fall agent emits nothing before the 30th pose-bearing frame, and on
\* the call for the 30th it emits a `lying` event of positive confidence.
C8_LyingEventWhenWindowFirstFull ==
    fall_fed.fixed =>
        /\ fall_fed.n < FALL_DETECTION_CONFIG.sequence_length => fall_event = <<>>
        /\ (fall_fed.n = FALL_DETECTION_CONFIG.sequence_length /\ env_last.det = "pose") =>
               /\ fall_event # <<>>
               /\ fall_event[1].fall_type = "lying"
               /\ RatLess(Rat(0, 1), fall_event[1].confidence)

\* C8 witness: the 30th frame of the fixed sequence has been processed and
\* the call returned a lying event.
C8_Witness ==
    /\ fall_fed = [n |-> FALL_DETECTION_CONFIG.sequence_length, fixed |-> TRUE]
    /\ fall_event # <<>>
    /\ fall_event[1].fall_type = "lying"

\* C9: the seizure agent's episode start is null after any frame whose
\* full-window seizure condition was false, in cooldown or not, and an event
\* is emitted only when the condition has held without interruption for
\* more than duration_threshold seconds.
C9_EpisodeResetOnEveryFalseFrame ==
    /\ seizure_watch.condition = "false" => seizure_start_time = NoneVal
    /\ seizure_event # <<>> =>
           /\ seizure_watch.held_since # NoneVal
           /\ seizure_watch.emitted_at - seizure_watch.held_since
                  > SEIZURE_DETECTION_CONFIG.duration_threshold

MeanBoxWithMargin(bboxes) ==
    LET s == SumBoxes(bboxes)
    IN  [x1 |-> 10 * s.x1 - (s.x2 - s.x1), y1 |-> 10 * s.y1 - (s.y2 - s.y1),
         x2 |-> 10 * s.x2 + (s.x2 - s.x1), y2 |-> 10 * s.y2 + (s.y2 - s.y1)]

\* C12: a detect call made while no bed region is set returns no event and
\* leaves the stored state alone; it counts the frame only if it carries a
\* detection; the call that counts the 30th sets the bed region to the mean
\* box with its 10 % margins, and no earlier call sets it.
C12_CalibrationAccumulatesThirtyDetections ==
    [][(bed_region = <<>> /\ bed_frame_count' = bed_frame_count + 1) =>
          /\ bed_event' = <<>>
          /\ bed_watch'.classified = "none"
          /\ bed_current_state' = bed_current_state
          /\ bed_calibration_frames' =
                 bed_calibration_frames + (IF env_last'.det = "none" THEN 0 ELSE 1)
          /\ IF bed_calibration_frames' >= calibration_frames_needed
             THEN bed_region' = <<MeanBoxWithMargin(bed_calibration_bboxes')>>
             ELSE bed_region' = <<>>]_vars

\* C12 witness: the 31st call, one frame having come without a detection,
\* was still a calibration call and has set the bed region.
C12_Witness ==
    /\ bed_region # <<>>
    /\ bed_frame_count = calibration_frames_needed + 1
    /\ bed_calibration_frames = calibration_frames_needed
    /\ env_last.det = "pose"
    /\ bed_watch.classified = "none"

C11_MonotoneWalkTraversesSittingUp ==
    (/\ bed_walk.first = "IN_BED"
     /\ "SITTING_UP" \in Range(bed_walk.path)
     /\ bed_current_state = "STANDING") =>
        /\ bed_walk.path = <<"IN_BED", "SITTING_UP", "STANDING">>
        /\ bed_walk.events = 1

\* C13: an emitted vital-signs event carries a heart rate within 40..180, a
\* respiratory rate within 8..30 and a signal quality of at least 0.6, and
\* comes from a processor run that returned a measurement; a run that
\* returned None, or a measurement failing one of the three checks, emits
\* nothing.
C13_EventOnlyForValidMeasurement ==
    /\ vital_event # <<>> =>
          /\ vital_event[1].heart_rate \in 40..180
          /\ vital_event[1].respiratory_rate \in 8..30
          /\ vital_event[1].signal_quality.n * 10 >= 6 * vital_event[1].signal_quality.d
          /\ vital_watch.ran
          /\ vital_watch.result # <<>>
          /\ vital_event[1].heart_rate = vital_watch.result[1].heart_rate
          /\ vital_event[1].respiratory_rate = vital_watch.result[1].respiratory_rate
          /\ vital_event[1].signal_quality = vital_watch.result[1].signal_quality
    /\ (vital_watch.ran /\ vital_watch.result = <<>>) => vital_event = <<>>
    /\ (/\ vital_watch.ran
        /\ vital_watch.result # <<>>
        /\ \/ vital_watch.result[1].heart_rate \notin 40..180
           \/ vital_watch.result[1].respiratory_rate \notin 8..30
           \/ vital_watch.result[1].signal_quality.n * 10
                  < 6 * vital_watch.result[1].signal_quality.d)
           => vital_event = <<>>

\* C13 witness: an event emitted for a measurement on the lower edge of all
\* three ranges.
C13_Witness ==
    /\ vital_event # <<>>
    /\ vital_event[1].heart_rate = 40
    /\ vital_event[1].respiratory_rate = 8
    /\ vital_event[1].signal_quality = Rat(6, 10)

\* C14: the signal processor runs only on a window of 300 face crops, two
\* consecutive runs are at least 30 frames apart whatever the earlier run
\* returned, and so are two consecutive events.
C14_ProcessorRunsThirtyFramesApart ==
    /\ vital_watch.ran => Len(vital_face_roi_buffer) = 300
    /\ vital_runs.runs[1] # NoneVal => vital_runs.runs[2] - vital_runs.runs[1] >= 30
    /\ vital_runs.emits[1] # NoneVal => vital_runs.emits[2] - vital_runs.emits[1] >= 30

\* C15: the immobility agent evaluates the risk at most once per 60 seconds
\* of wall-clock time: two consecutive evaluations, and two consecutive
\* events, are at least 60 seconds apart, and no evaluation is made within
\* 60 seconds of the agent's construction or last reset.
C15_EvaluationsSixtySecondsApart ==
    /\ immobility_log.evals[1] # NoneVal =>
           immobility_log.evals[2] - immobility_log.evals[1] >= 60
    /\ immobility_log.emits[1] # NoneVal =>
           immobility_log.emits[2] - immobility_log.emits[1] >= 60
    /\ immobility_log.evals[2] # NoneVal =>
           immobility_log.evals[2] - immobility_log.born >= 60
    /\ immobility_event # <<>> => immobility_watch.evaluated

\* C15 witness: two events exactly 60 seconds apart.
C15_Witness ==
    /\ immobility_event # <<>>
    /\ immobility_log.emits[1] # NoneVal
    /\ immobility_log.emits[2] - immobility_log.emits[1] = 60

\* C16: an evaluation emits an event exactly when the immobility has lasted
\* more than 5400 seconds; the event's risk level is HIGH if it has lasted
\* more than 7200 seconds and MEDIUM otherwise, and its confidence is
\* min(1, duration / 7200). A LOW evaluation emits nothing.
C16_RiskLevelFollowsDuration ==
    immobility_watch.evaluated =>
        LET d == immobility_watch.duration
        IN  /\ immobility_event # <<>> <=> d > 5400
            /\ immobility_event # <<>> =>
                  /\ immobility_event[1].immobility_duration = d
                  /\ immobility_event[1].risk_level = (IF d > 7200 THEN "HIGH" ELSE "MEDIUM")
                  /\ IF d >= 7200
                     THEN immobility_event[1].confidence.n = immobility_event[1].confidence.d
                     ELSE immobility_event[1].confidence.n * 7200
                              = d * immobility_event[1].confidence.d

\* C16 witness: an event for an immobility of exactly 7200 seconds.
C16_Witness ==
    /\ immobility_event # <<>>
    /\ immobility_watch.evaluated
    /\ immobility_watch.duration = 7200
    /\ immobility_event[1].risk_level = "MEDIUM"

\* The last n items of a list, in order.
LastItems(list, n) == [i \in 1..n |-> list[Len(list) - n + i]]

\* C17: the buffer never holds more than maxlen items; once more than maxlen
\* items have been added it holds exactly the last maxlen of them in the
\* order they were added, get_oldest returns the (k - maxlen + 1)-th and
\* get_latest the k-th.
C17_BufferKeepsLastCapacityItems ==
    LET k == Len(temporal_added)
    IN  /\ Len(temporal_buffer) <= temporal_maxlen
        /\ temporal_call.op = "len" => temporal_call.value <= temporal_maxlen
        /\ k > temporal_maxlen =>
              /\ Len(temporal_buffer) = temporal_maxlen
              /\ temporal_buffer = LastItems(temporal_added, temporal_maxlen)
              /\ temporal_call.op = "len" => temporal_call.value = temporal_maxlen
              /\ temporal_call.op = "get_all" =>
                     temporal_call.list = LastItems(temporal_added, temporal_maxlen)
              /\ temporal_call.op = "get_oldest" =>
                     temporal_call.value = temporal_added[k - temporal_maxlen + 1]
              /\ temporal_call.op = "get_latest" => temporal_call.value = temporal_added[k]

\* C17 witness: get_oldest answered after an item was pushed out that
\* differs from the one now oldest.
C17_Witness ==
    /\ temporal_call.op = "get_oldest"
    /\ temporal_maxlen >= 2
    /\ Len(temporal_added) > temporal_maxlen
    /\ temporal_call.value = temporal_added[Len(temporal_added) - temporal_maxlen + 1]
    /\ temporal_call.value # temporal_added[Len(temporal_added) - temporal_maxlen]

\* C18: get_window(n), for every n >= 0, returns the most recent
\* min(n, size) items in the order they were added (none for n = 0) and
\* leaves the buffer as it was.
C18_WindowIsMostRecentItems ==
    temporal_call.op = "get_window" =>
        /\ temporal_call.list =
               LastItems(temporal_call.before,
                         Min(temporal_call.arg, Len(temporal_call.before)))
        /\ temporal_buffer = temporal_call.before

\* C19: on an empty buffer get_latest and get_oldest return None,
\* get_window returns the empty list, and clear leaves the buffer empty with
\* its capacity unchanged.
C19_EmptyBufferAnswers ==
    temporal_call.before = <<>> =>
        /\ temporal_call.op \in {"get_latest", "get_oldest"} =>
               temporal_call.value = NoneVal
        /\ temporal_call.op = "get_window" => temporal_call.list = <<>>
        /\ temporal_call.op = "clear" =>
               /\ Len(temporal_buffer) = 0
               /\ temporal_maxlen = temporal_call.maxlen

\* C19 witness: get_oldest answered None on an empty buffer.
C19_Witness ==
    /\ temporal_call.op = "get_oldest"
    /\ temporal_call.before = <<>>
    /\ temporal_call.value = NoneVal

\* The internal state of each agent as its constructor leaves it, the
\* timestamps being those of a constructor run at the time of the reset.
FallFresh ==
    /\ fall_frame_count = 0
    /\ fall_pose_buffer = <<>>
    /\ fall_last_event_time = 0

SeizureFresh ==
    /\ seizure_frame_count = 0
    /\ seizure_pose_buffer = <<>>
    /\ seizure_start_time = NoneVal
    /\ seizure_last_event_time = 0

VitalFresh ==
    /\ vital_frame_count = 0
    /\ vital_face_roi_buffer = <<>>
    /\ vital_last_update_frame = 0

BedFresh ==
    /\ bed_frame_count = 0
    /\ bed_region = <<>>
    /\ bed_current_state = "IN_BED"
    /\ bed_state_start_time \in {now - 1, now}
    /\ bed_last_transition_time = 0
    /\ bed_calibration_frames = 0
    /\ bed_calibration_bboxes = <<>>

ImmobilityFresh ==
    /\ immobility_frame_count = 0
    /\ immobility_last_pose = <<>>
    /\ immobility_last_movement_time \in {now - 1, now}
    /\ immobility_last_check_time \in {now - 1, now}
    /\ immobility_posture_change_count = 0
    /\ immobility_current_posture = "unknown"
    /\ immobility_pose_buffer = <<>>

EmotionFresh ==
    /\ emotion_frame_count = 0
    /\ emotion_last_emotion = <<>>
    /\ emotion_last_update_frame = 0

\* C20: a reset of any of the six agents leaves its internal state, the
\* enabled flag and the configuration apart, equal to that of a freshly
\* constructed agent: buffers, discrete state (bed-exit state, current
\* posture), timestamps, counters, calibration accumulators and the
\* auto-calibrated bed region.
C20_ResetLeavesAgentFresh ==
    [][/\ FallReset => FallFresh'
       /\ SeizureReset => SeizureFresh'
       /\ VitalReset => VitalFresh'
       /\ BedReset => BedFresh'
       /\ ImmobilityReset => ImmobilityFresh'
       /\ EmotionReset => EmotionFresh']_vars

\* The step is a detect call of the agent driven, on a frame without a
\* detection or whose detection lacks the pose (the face box).
MissingInputStep(agent, frame_count_before, frame_count_after) ==
    /\ focus = agent
    /\ frame_count_after = frame_count_before + 1
    /\ env_last'.det \in {"none", "nopose", "noface"}

\* On missing input the five agents other than the bed-exit agent return no
\* event and keep their buffers, discrete state and timestamps.
MissingInputIgnored ==
    /\ MissingInputStep("fall", fall_frame_count, fall_frame_count') =>
          /\ fall_event' = <<>>
          /\ UNCHANGED <<fall_enabled, fall_pose_buffer, fall_last_event_time>>
    /\ MissingInputStep("seizure", seizure_frame_count, seizure_frame_count') =>
          /\ seizure_event' = <<>>
          /\ UNCHANGED <<seizure_enabled, seizure_pose_buffer, seizure_start_time,
                         seizure_last_event_time>>
    /\ MissingInputStep("vital_signs", vital_frame_count, vital_frame_count') =>
          /\ vital_event' = <<>>
          /\ UNCHANGED <<vital_enabled, vital_face_roi_buffer, vital_last_update_frame>>
    /\ MissingInputStep("immobility", immobility_frame_count, immobility_frame_count') =>
          /\ immobility_event' = <<>>
          /\ UNCHANGED <<immobility_enabled, immobility_last_pose,
                         immobility_last_movement_time, immobility_last_check_time,
                         immobility_posture_change_count, immobility_current_posture,
                         immobility_pose_buffer>>
    /\ MissingInputStep("emotion", emotion_frame_count, emotion_frame_count') =>
          /\ emotion_event' = <<>>
          /\ UNCHANGED <<emotion_enabled, emotion_last_emotion, emotion_last_update_frame>>

\* C21 as stated: on a frame without a detection, or whose detection lacks
\* the pose (the face box) the agent needs, every agent returns no event and
\* keeps its buffers, discrete state and timestamps; only the frame counter
\* advances.
C21_MissingInputLeavesStateUnchanged ==
    [][/\ MissingInputIgnored
       /\ MissingInputStep("bed_exit", bed_frame_count, bed_frame_count') =>
             /\ bed_event' = <<>>
             /\ UNCHANGED <<bed_enabled, bed_region, bed_current_state,
                            bed_state_start_time, bed_last_transition_time,
                            bed_calibration_frames, bed_calibration_bboxes>>]_vars

\* C21 amended: as above, except that a bed-exit agent that has no bed
\* region yet counts a detection lacking the pose toward its calibration:
\* the detection's box is accumulated, and the 30th box sets the region.
C21_MissingInputExceptCalibration ==
    [][/\ MissingInputIgnored
       /\ MissingInputStep("bed_exit", bed_frame_count, bed_frame_count') =>
             /\ bed_event' = <<>>
             /\ UNCHANGED <<bed_enabled, bed_current_state, bed_state_start_time,
                            bed_last_transition_time>>
             /\ IF bed_region = <<>> /\ env_last'.det = "nopose"
                THEN /\ bed_calibration_frames' = bed_calibration_frames + 1
                     /\ bed_calibration_bboxes' =
                            Append(bed_calibration_bboxes, env_last'.bbox)
                     /\ bed_region' # <<>> <=>
                            bed_calibration_frames' >= calibration_frames_needed
                ELSE UNCHANGED <<bed_region, bed_calibration_frames,
                                 bed_calibration_bboxes>>]_vars

\* C21 witness: a calibrated bed-exit agent that has seen the patient
\* standing is fed a detection without a pose and returns nothing.
C21_Witness ==
    /\ focus = "bed_exit"
    /\ bed_region # <<>>
    /\ bed_current_state = "STANDING"
    /\ env_last.det = "nopose"
    /\ bed_event = <<>>
    /\ bed_watch.classified = "none"

\* The samples of a window carry strictly increasing timestamps.
StrictlyIncreasingTimestamps(buffer) ==
    \A i \in 1..(Len(buffer) - 1) : buffer[i].timestamp < buffer[i + 1].timestamp

\* C22: a frame whose timestamp is not later than that of the frame last
\* accepted is never buffered: the windows of the fall and seizure agents
\* hold strictly increasing timestamps.
C22_StaleFramesAreNotBuffered ==
    /\ StrictlyIncreasingTimestamps(fall_pose_buffer)
    /\ StrictlyIncreasingTimestamps(seizure_pose_buffer)

RuleIsWellFormed(rule) ==
    \A i \in 1..Len(rule.conditions) : rule.conditions[i] \in KnownConditions

\* C23: a configuration error fails at construction: no orchestrator holds a
\* rule with a condition tag outside the known ones and no rPPG processor
\* holds an algorithm name other than CHROM, POS and ICA; so no alert comes
\* from a rule with such a tag and no process call runs an algorithm other
\* than the one configured.
C23_ConfigurationErrorsFailFast ==
    /\ \A i \in 1..Len(configured_rules) : RuleIsWellFormed(configured_rules[i])
    /\ \A i \in 1..Len(configured_alerts) :
           \A j \in 1..Len(configured_rules) :
               configured_rules[j].name = configured_alerts[i].metadata.value
                   => RuleIsWellFormed(configured_rules[j])
    /\ rppg_algorithm \in KnownAlgorithms
    /\ rppg_ran \in {"none", rppg_algorithm}

\* C24: after update_config every detect uses the updated value: a fall
\* event's confidence exceeds the confidence_threshold of the fall agent's
\* configuration, a bed-exit event's state is in its alert_on_states, the
\* immobility agent evaluates the risk only when its check_interval has
\* passed since the last evaluation; and updating one agent's configuration
\* leaves every other agent's unchanged.
C24_UpdatedThresholdsAreUsed ==
    [][/\ (FallDetect /\ fall_event' # <<>>)
           => RatLess(agent_config.fall.confidence_threshold, fall_event'[1].confidence)
       /\ (BedWalkDetect /\ bed_event' # <<>>)
           => bed_event'[1].state \in agent_config.bed_exit.alert_on_states
       /\ (ImmobilityDetect /\ immobility_watch'.evaluated)
           => ~(immobility_watch'.current_time - immobility_last_check_time
                    < agent_config.immobility.check_interval)
       /\ \A a \in DOMAIN agent_config :
              a # FocusAgent => agent_config'[a] = agent_config[a]]_vars

\* The classification and the confidence the fall agent is to report for a
\* hip height, a torso angle (degrees) and a vertical velocity.
ExpectedFallType(hip_height, torso_angle, velocity) ==
    IF RatLess(hip_height, Rat(3, 10)) /\ torso_angle > 60 THEN "lying"
    ELSE IF RatLess(Rat(1, 2), velocity) /\ torso_angle > 30 THEN "fall"
    ELSE IF RatLess(Rat(35, 100), velocity) /\ torso_angle > 42 THEN "near_fall"
    ELSE "none"

ExpectedFallConfidence(fall_type, ind) ==
    CASE fall_type = "lying" -> ind.lying_confidence
      [] fall_type = "fall" -> ind.fall_confidence
      [] fall_type = "near_fall" -> ind.near_fall_confidence
      [] OTHER -> Rat(0, 1)

\* C27: the fall type is the first match in the order lying (hip height
\* below 0.3 and torso angle above 60), fall (velocity above 0.5 and angle
\* above 30), near_fall (velocity above 0.35 and angle above 42); an event is
\* built exactly when a type matched and the confidence of that type exceeds
\* 0.7, so an emitted confidence lies in (0.7, 1].
C27_FallClassificationIsFirstMatch ==
    \A i \in 1..Len(fall_classified) :
        LET c == fall_classified[i]
            expected == ExpectedFallType(c.ind.hip_height, c.ind.torso_angle,
                                         c.ind.vertical_velocity)
            confidence == ExpectedFallConfidence(expected, c.ind)
        IN  /\ c.cls.fall_type = expected
            /\ c.cls.confidence = confidence
            /\ c.emitted <=> (expected # "none" /\ RatLess(Rat(7, 10), confidence))
            /\ c.emitted => /\ RatLess(Rat(7, 10), c.cls.confidence)
                            /\ ~RatLess(Rat(1, 1), c.cls.confidence)

\* A pose that is lying and falling at once is reported as lying, with the
\* lying confidence, and the event is built.
C27_Witness ==
    /\ fall_classified # <<>>
    /\ fall_classified[1].ind.is_lying
    /\ fall_classified[1].ind.is_falling
    /\ fall_classified[1].cls.fall_type = "lying"
    /\ RatLess(fall_classified[1].ind.lying_confidence,
               fall_classified[1].ind.fall_confidence)
    /\ fall_classified[1].emitted

\* C28: after construction or reset the fall agent emits no event before 30
\* pose-bearing frames have been pushed into its window; a frame without a
\* pose is not pushed, does not count, and yields no event.
C28_FallColdStartGuard ==
    [][(FallDetect \/ FallReset) =>
           /\ env_last'.det # "pose" /\ FallDetect
                  => fall_pose_buffer' = fall_pose_buffer /\ fall_event' = <<>>
           /\ Len(fall_pose_buffer')
                  = Min(fall_fed'.n, FALL_DETECTION_CONFIG.sequence_length)
           /\ fall_event' # <<>>
                  => fall_fed'.n >= FALL_DETECTION_CONFIG.sequence_length]_vars

\* C28 witness: thirty calls have been made, one of them on a frame without
\* a pose, the person lies as in the reference pose, and the window, one
\* frame short, has kept the agent silent.
C28_Witness ==
    /\ focus = "fall"
    /\ fall_frame_count = FALL_DETECTION_CONFIG.sequence_length
    /\ fall_fed.n = FALL_DETECTION_CONFIG.sequence_length - 1
    /\ env_last.det = "pose"
    /\ env_last.pose = ReferenceLying
    /\ fall_event = <<>>

\* Some keypoint of the limb has visibility below 0.5 in some frame.
LimbOccluded(track) ==
    \E i \in 1..seizure_buffer_size, k \in 1..3 : TrackWindow(track)[i][k] < 50

\* C29: a limb group with any keypoint of visibility below 0.5 in any frame
\* of the window is excluded from the analysis: it has no trajectory and is
\* not among the affected limbs; and no frame's position is the mean of
\* fewer than the limb's three keypoints.
C29_OccludedLimbsAreExcluded ==
    \A n \in 1..Len(seizure_analysed) :
        \A l \in 1..Len(limbs) :
            LET a == seizure_analysed[n]
            IN  /\ LimbOccluded(a.limbs[l].track)
                       => /\ a.analysed[l].averaged = {}
                          /\ limbs[l] \notin Range(a.result.affected_limbs)
                /\ a.analysed[l].averaged \subseteq {3}

\* Every frame of the window shows at least one keypoint of the limb with
\* visibility above 0.5, so that the limb has a trajectory and a spectrum.
HasTrajectory(track) ==
    \A i \in 1..seizure_buffer_size : \E k \in 1..3 : TrackWindow(track)[i][k] > 50

RatEq(a, b) == a.n * b.d = b.n * a.d

\* C30: the seizure condition is true exactly when at least 2 of the 4 limb
\* groups have a normalised in-band peak above 0.3, and the confidence is
\* min(1, (affected / 4) * (largest such peak / 0.3)), never above 1.
C30_SeizureConditionCountsAffectedLimbs ==
    \A n \in 1..Len(seizure_analysed) :
        LET a == seizure_analysed[n]
            peak(l) == a.limbs[l].spectrum.magnitude
            affected == {l \in 1..Len(limbs) :
                            /\ HasTrajectory(a.limbs[l].track)
                            /\ RatLess(Rat(3, 10), peak(l))}
            largest == IF affected = {} THEN Rat(0, 1)
                       ELSE peak(CHOOSE l \in affected :
                                     \A m \in affected : ~RatLess(peak(l), peak(m)))
            expected == RatMin1(Rat(Cardinality(affected) * largest.n * 10,
                                    4 * largest.d * 3))
        IN  /\ a.result.seizure_detected <=> Cardinality(affected) >= 2
            /\ Range(a.result.affected_limbs) = {limbs[l] : l \in affected}
            /\ RatEq(a.result.confidence, expected)
            /\ ~RatLess(Rat(1, 1), a.result.confidence)

\* C30 witness: two fully visible limbs with peak 0.45 and a third with peak
\* exactly 0.3; the condition is true with confidence 0.75.
C30_Witness ==
    /\ seizure_analysed # <<>>
    /\ \A l \in 1..Len(limbs) : ~LimbOccluded(seizure_analysed[1].limbs[l].track)
    /\ \E l \in 1..Len(limbs) :
           RatEq(seizure_analysed[1].limbs[l].spectrum.magnitude, Rat(3, 10))
    /\ seizure_analysed[1].result.seizure_detected
    /\ Len(seizure_analysed[1].result.affected_limbs) = 2
    /\ RatEq(seizure_analysed[1].result.confidence, Rat(3, 4))

\* The state the bed-exit agent is to report for a hip height, a torso
\* angle (degrees) and an IoU with the bed region.
ExpectedBedState(hip_height, torso_angle, overlap) ==
    IF RatLess(Rat(6, 10), hip_height) /\ torso_angle < 30 THEN "STANDING"
    ELSE IF RatLess(overlap, Rat(3, 10)) THEN "OUT_OF_BED"
    ELSE IF torso_angle > 45 /\ RatLess(Rat(3, 10), hip_height) THEN "SITTING_UP"
    ELSE "IN_BED"

BedStates == {"IN_BED", "SITTING_UP", "STANDING", "OUT_OF_BED"}

\* C31: the per-frame state is STANDING iff hip height > 0.6 and torso angle
\* < 30, else OUT_OF_BED iff the IoU with the bed region is < 0.3, else
\* SITTING_UP iff torso angle > 45 and hip height > 0.3, else IN_BED: one of
\* the four states, whatever the state before.
C31_BedStateIsTotalPriorityFunction ==
    \A i \in 1..Len(bed_classified) :
        LET c == bed_classified[i]
        IN  /\ c.state \in BedStates
            /\ c.state = ExpectedBedState(Rat(frame_height - c.pose.hip_y, frame_height),
                                          c.pose.angle, compute_iou(c.bbox, BedBox))

\* C31 witness: a person standing beside the bed (STANDING wins over
\* OUT_OF_BED) right after a frame that was classified IN_BED.
C31_Witness ==
    /\ bed_classified # <<>>
    /\ bed_classified[1].previous = "IN_BED"
    /\ bed_classified[1].bbox = AwayBox
    /\ bed_classified[1].state = "STANDING"

\* C32: on a frame with a pose and a previous pose, a movement above the
\* threshold sets the last-movement time to the current clock and a movement
\* at or below it leaves that time unchanged; so every immobility event
\* implies that the scene did not move above the threshold during the
\* warning_duration seconds before it.
C32_MovementResetsImmobilityClock ==
    [][MovementDetect =>
        /\ (env_last'.det = "pose" /\ movement_watch.shown # <<>>) =>
               IF SceneMoved(movement_watch.shown[1], env_last'.pose)
               THEN immobility_last_movement_time' \in {now, now + 1}
               ELSE immobility_last_movement_time' = immobility_last_movement_time
        /\ immobility_event' # <<>> =>
               \/ movement_watch'.moved_at = NoneVal
               \/ immobility_watch'.current_time - movement_watch'.moved_at
                      > IMMOBILITY_CONFIG.warning_duration]_vars

\* C32 witness: an event issued for a patient who moved above the threshold
\* after the agent was built, and has lain still for 5400 seconds since.
C32_Witness ==
    /\ immobility_event # <<>>
    /\ movement_watch.moved_at # NoneVal
    /\ immobility_last_movement_time \in
           {movement_watch.moved_at, movement_watch.moved_at + 1}

\* The event types no fusion rule is written for.
UncoveredTypes == {"emotion_detection", "vital_signs"}

\* The individual alerts among the candidates of the last call, with what
\* the duplicate check did to each.
IndividualFates ==
    SelectSeq(orch_candidates, LAMBDA c : c.alert.metadata.key = "source")

\* C33: every emotion or vital-signs event of a batch yields one alert made
\* of that single event, at level INFO, stamped with the event's timestamp
\* and naming its agent as the source, returned unless the duplicate check
\* discards it, whether or not a rule matched the same event; events of the
\* other types yield no individual alert.
C33_UncoveredEventsGetIndividualAlerts ==
    LET uncovered == SelectSeq(orch_batch, LAMBDA e : e.event_type \in UncoveredTypes)
    IN  /\ Len(IndividualFates) = Len(uncovered)
        /\ \A i \in 1..Len(uncovered) :
               LET e == uncovered[i]
                   c == IndividualFates[i]
               IN  /\ c.alert.events = <<e>>
                   /\ c.alert.level = "INFO"
                   /\ c.alert.timestamp = e.timestamp
                   /\ c.alert.metadata = [key |-> "source", value |-> e.agent_name]
                   /\ ~c.discarded =>
                          \E j \in 1..Len(orch_returned) : orch_returned[j] = c.alert

\* C33 witness: a low heart rate that completed the critical-fall rule and
\* was reported on its own as well, in the same call.
C33_Witness ==
    /\ \E j \in 1..Len(orch_returned) :
           /\ orch_returned[j].metadata = [key |-> "rule", value |-> "critical_fall"]
           /\ \E k \in 1..Len(orch_returned) :
                  /\ orch_returned[k].metadata.key = "source"
                  /\ orch_returned[k].events[1].event_type = "vital_signs"
                  /\ \E m \in 1..Len(orch_returned[j].events) :
                         orch_returned[j].events[m] = orch_returned[k].events[1]

\* The monitoring threads that are inside the loop body with a pipeline
\* to read frames from.
LoopsProcessing ==
    {l \in 1..Len(web_loops) : web_loops[l].pc = "frame" /\ web_pipeline.open}

\* C34: whatever the interleaving of /api/start, /api/stop and the
\* monitoring threads, at most one monitoring loop processes frames at any
\* time.
C34_AtMostOneMonitoringLoop ==
    Cardinality(LoopsProcessing) <= 1

\* What each agent keeps between frames, the enabled flag aside.
FallAgentState == <<fall_frame_count, fall_pose_buffer, fall_last_event_time>>

BedAgentState ==
    <<bed_frame_count, bed_region, bed_current_state, bed_state_start_time,
      bed_last_transition_time, bed_calibration_frames, bed_calibration_bboxes>>

ImmobilityAgentState ==
    <<immobility_frame_count, immobility_last_pose, immobility_last_movement_time,
      immobility_last_check_time, immobility_posture_change_count,
      immobility_current_posture, immobility_pose_buffer>>

EnabledFlags == <<fall_enabled, bed_enabled, immobility_enabled>>

WindowRows == {24 * k : k \in 0..30}
WindowAngles == {3 * k : k \in 0..60}
WindowSeconds == {1, 2}

FallWindow(first_y, last_y, angle, seconds) ==
    [i \in 1..FALL_DETECTION_CONFIG.sequence_length |->
        IF i < FALL_DETECTION_CONFIG.sequence_length
        THEN [pose |-> [hip_y |-> first_y, angle |-> angle], timestamp |-> StartTime]
        ELSE [pose |-> [hip_y |-> last_y, angle |-> angle],
              timestamp |-> StartTime + seconds]]

\* The fall type detect emits on a full window out of cooldown, "none" if
\* it emits nothing.
EmittedFallType(buffer) ==
    LET cls == FallClassify(analyze_fall_indicators(get_latest(buffer).pose,
                                                    frame_height, buffer))
    IN  IF FallWindowFull(buffer) /\ FallEmits(cls) THEN cls.fall_type ELSE "none"

EmittableFallTypes ==
    {EmittedFallType(FallWindow(y0, y1, a, s)) :
        y0 \in WindowRows, y1 \in WindowRows, a \in WindowAngles, s \in WindowSeconds}

\* C36: under the default configuration every fall type can be emitted:
\* some pose sequence makes detect emit near_fall, as others make it emit
\* lying and fall.
C36_EveryFallTypeIsEmittable ==
    agent_config["fall"] = DefaultAgentConfig["fall"] =>
        {"lying", "fall", "near_fall"} \subseteq EmittableFallTypes

\* C38: every seizure event has a confidence of at least confidence_threshold
\* (0.75); a seizure condition of lower confidence, such as two of the four
\* limbs barely above the magnitude threshold, emits no event.
C38_SeizureEventsMeetConfidenceThreshold ==
    seizure_event # <<>> =>
        ~RatLess(seizure_event[1].confidence, SEIZURE_DETECTION_CONFIG.confidence_threshold)

\* C39: the backlog of raw events only grows: each call of process_events
\* appends its events in arrival order, so that the backlog's length grows by
\* the number of events processed, and nothing but reset takes events out of
\* it, which empties it.
C39_EventBacklogIsAppendOnly ==
    [][/\ ProcessEvents =>
              /\ event_buffer' = event_buffer \o orch_batch'
              /\ Len(event_buffer') - Len(event_buffer) = events_seen' - events_seen
       /\ OrchReset => event_buffer' = <<>>
       /\ (\/ Len(event_buffer') < Len(event_buffer)
           \/ SubSeq(event_buffer', 1, Len(event_buffer)) # event_buffer) => OrchReset]_vars

\* C39 witness: a backlog that was emptied by reset and holds the two events
\* of one later batch, in the order they were passed.
C39_Witness ==
    /\ events_seen > Len(event_buffer)
    /\ Len(event_buffer) = 2
    /\ event_buffer = orch_batch
    /\ event_buffer[1] # event_buffer[2]

\* C40: the IoU tracker returns one tracked object per detection passed to
\* update, under pairwise distinct track IDs, and a track ID given to a new
\* track is not given to another new track before reset.
C40_OneTrackPerDetection ==
    /\ Len(track_returned) = Len(track_input)
    /\ \A i, j \in 1..Len(track_returned) :
           i # j => track_returned[i].track_id # track_returned[j].track_id
    /\ \A i, j \in 1..Len(track_issued) : i # j => track_issued[i] # track_issued[j]

\* The patient has been motionless for more than warning_duration, and
\* frames will keep arriving for two more check intervals.
VigilOverdue ==
    /\ now - immobility_last_movement_time > IMMOBILITY_CONFIG.warning_duration
    /\ now + 2 * IMMOBILITY_CONFIG.check_interval < StartTime + VigilSpan

\* The warning duration ran out more than a check interval and a frame
\* interval ago.
VigilLongOverdue ==
    now - immobility_last_movement_time
        > IMMOBILITY_CONFIG.warning_duration + IMMOBILITY_CONFIG.check_interval + VigilStep

\* C37: while pose frames keep arriving less than check_interval apart and
\* the patient does not move, once more than warning_duration has passed
\* since the last movement an event is emitted at the next check, within
\* check_interval plus one frame interval, and again at every following
\* check.
C37_MotionlessPatientIsReported ==
    /\ VigilOverdue ~> (immobility_event # <<>>)
    /\ [](VigilLongOverdue =>
             /\ immobility_log.emits[2] # NoneVal
             /\ now - immobility_log.emits[2]
                    <= IMMOBILITY_CONFIG.check_interval + VigilStep)
    /\ []((immobility_watch.evaluated /\ VigilLongOverdue) => immobility_event # <<>>)

\* C37 witness: the second event in a row for the motionless patient, one
\* check after the first.
C37_Witness ==
    /\ focus = "vigil"
    /\ immobility_event # <<>>
    /\ immobility_log.emits[1] # NoneVal
    /\ immobility_log.emits[2] - immobility_log.emits[1]
           <= IMMOBILITY_CONFIG.check_interval + VigilStep
    /\ immobility_last_movement_time < StartTime

====
